---- MODULE Spec2Model ----
(***************************************************************************)
(* Appointment scheduling core: Appointment entity, AppointmentValidator,  *)
(* AppointmentRepository (JSON list of dict records, read-all/write-all)   *)
(* and AppointmentController (validation, conflict check, CRUD).           *)
(*                                                                         *)
(* Representation                                                          *)
(*   text      a sequence of one-character strings, <<"a","@","b">>        *)
(*   date      a day number                                                *)
(*   time      seconds since midnight (datetime.time, seconds kept)        *)
(*   datetime  a clock reading (integer ticks)                             *)
(*   record    the dict written to the JSON file: date as ISO text,        *)
(*             start_time/end_time as "HH:MM" (seconds dropped),           *)
(*             created_at/updated_at as ISO text                           *)
(***************************************************************************)
EXTENDS Integers, Sequences, FiniteSets, TLC

VARIABLES store, now, last, session, callers

vars == <<store, now, last, session, callers>>

(***************************************************************************)
(* Bounds of the model.                                                    *)
(***************************************************************************)
MaxRecords == 2      \* records the JSON file may hold
MaxClock   == 3      \* last clock reading explored
MaxLen     == 3      \* longest e-mail text given to the validator

(***************************************************************************)
(* AppointmentStatus                                                       *)
(***************************************************************************)
SCHEDULED == "Scheduled"
COMPLETED == "Completed"
CANCELLED == "Cancelled"
NO_SHOW   == "No Show"
ALL       == <<SCHEDULED, COMPLETED, CANCELLED, NO_SHOW>>

InALL(s) == \E i \in 1..Len(ALL) : ALL[i] = s

(***************************************************************************)
(* Text helpers: str.strip, "in", str.split(c)[-1].                        *)
(***************************************************************************)
IsSpace(c) == c = " "

RECURSIVE LStrip(_)
LStrip(s) == IF s = <<>> THEN <<>>
             ELSE IF IsSpace(Head(s)) THEN LStrip(Tail(s)) ELSE s

RECURSIVE RStrip(_)
RStrip(s) == IF s = <<>> THEN <<>>
             ELSE IF IsSpace(s[Len(s)]) THEN RStrip(SubSeq(s, 1, Len(s) - 1))
             ELSE s

strip(s) == RStrip(LStrip(s))

Contains(s, c) == \E i \in 1..Len(s) : s[i] = c

SplitLast(s, c) ==
    LET I == {i \in 1..Len(s) : s[i] = c}
    IN  IF I = {} THEN s
        ELSE LET m == CHOOSE i \in I : \A j \in I : j <= i
             IN  SubSeq(s, m + 1, Len(s))

\* ord(c) of the characters used
Ord(c) ==
    CASE c = " " -> 32 [] c = "." -> 46 [] c = "1" -> 49 [] c = "@" -> 64
      [] c = "A" -> 65 [] c = "B" -> 66 [] c = "a" -> 97 [] c = "b" -> 98
      [] c = "m" -> 109 [] c = "n" -> 110 [] c = "s" -> 115 [] OTHER -> 0

\* str.lower
lower(s) ==
    [i \in 1..Len(s) |->
        CASE s[i] = "A" -> "a" [] s[i] = "B" -> "b" [] OTHER -> s[i]]

\* s < t on str: the first differing character decides, a proper prefix is
\* smaller
TextLess(s, t) ==
    \E k \in 0..Len(s) :
        /\ k <= Len(t)
        /\ \A i \in 1..k : s[i] = t[i]
        /\ \/ k = Len(s) /\ k < Len(t)
           \/ k < Len(s) /\ k < Len(t) /\ Ord(s[k + 1]) < Ord(t[k + 1])

\* q in s on str
IsSubstring(q, s) ==
    \E i \in 0..(Len(s) - Len(q)) : SubSeq(s, i + 1, i + Len(q)) = q

(***************************************************************************)
(* Time arithmetic: datetime.combine and timedelta.total_seconds.          *)
(***************************************************************************)
SecondsPerMinute == 60
MinDuration      == 15 * 60

\* datetime.combine(date, time), in seconds
combine(d, t) == d * 86400 + t

(***************************************************************************)
(* AppointmentValidator.validate: every rule is evaluated, messages are    *)
(* appended in source order.                                               *)
(***************************************************************************)
Msg(text, arg) == [text |-> text, arg |-> arg]

TitleRequired   == Msg("Title is required.", <<>>)
NameRequired    == Msg("Client name is required.", <<>>)
EmailRequired   == Msg("Client email is required.", <<>>)
EmailInvalid    == Msg("Please enter a valid email address.", <<>>)
PhoneRequired   == Msg("Client phone is required.", <<>>)
InvalidStatus(s) == Msg("Invalid status: ", <<s>>)
EndAfterStart   == Msg("End time must be after start time.", <<>>)
TooShort        == Msg("Appointment must be at least 15 minutes long.", <<>>)

When(c, m) == IF c THEN <<m>> ELSE <<>>

EmailErrors(client_email) ==
    IF strip(client_email) = <<>> THEN <<EmailRequired>>
    ELSE When(~Contains(client_email, "@")
              \/ ~Contains(SplitLast(client_email, "@"), "."), EmailInvalid)

\* variant: the ordering rule written with < instead of <=
TimeErrors_strict(appt_date, start_time, end_time) ==
    LET start_dt == combine(appt_date, start_time)
        end_dt   == combine(appt_date, end_time)
    IN  When(end_dt < start_dt, EndAfterStart)
        \o When(end_dt - start_dt < MinDuration, TooShort)

TimeErrors(appt_date, start_time, end_time) ==
    LET start_dt == combine(appt_date, start_time)
        end_dt   == combine(appt_date, end_time)
    IN  When(end_dt <= start_dt, EndAfterStart)
        \o When(end_dt - start_dt < MinDuration, TooShort)

\* variant: the rules on the time window are left out
validate_no_time(title, client_name, client_email, client_phone, appt_date, start_time, end_time, status) ==
    When(strip(title) = <<>>, TitleRequired)
    \o When(strip(client_name) = <<>>, NameRequired)
    \o EmailErrors(client_email)
    \o When(strip(client_phone) = <<>>, PhoneRequired)
    \o When(~InALL(status), InvalidStatus(status))

\* variant: the rules chained with elif, so that only the first applies
validate_elif(title, client_name, client_email, client_phone, appt_date, start_time, end_time, status) ==
    LET all == When(strip(title) = <<>>, TitleRequired)
               \o When(strip(client_name) = <<>>, NameRequired)
               \o EmailErrors(client_email)
               \o When(strip(client_phone) = <<>>, PhoneRequired)
               \o When(~InALL(status), InvalidStatus(status))
               \o TimeErrors(appt_date, start_time, end_time)
    IN  IF all = <<>> THEN <<>> ELSE <<all[1]>>

validate(title, client_name, client_email, client_phone, appt_date, start_time, end_time, status) ==
    When(strip(title) = <<>>, TitleRequired)
    \o When(strip(client_name) = <<>>, NameRequired)
    \o EmailErrors(client_email)
    \o When(strip(client_phone) = <<>>, PhoneRequired)
    \o When(~InALL(status), InvalidStatus(status))
    \o TimeErrors(appt_date, start_time, end_time)

(***************************************************************************)
(* Appointment entity: serialisation to and from the stored dict.          *)
(***************************************************************************)
date_isoformat(d)       == <<"date", d>>
date_fromisoformat(x)   == x[2]
datetime_isoformat(t)   == <<"datetime", t>>
datetime_fromisoformat(x) == x[2]

\* time.strftime("%H:%M"): hour and minute, the seconds are not written
strftime_HM(t) == <<t \div 3600, (t \div SecondsPerMinute) % 60>>

\* variant: only the hour is parsed
time_fromisoformat_hour(x) == x[1] * 3600

\* time.fromisoformat("HH:MM")
time_fromisoformat(x) == x[1] * 3600 + x[2] * SecondsPerMinute

Appointment(id, title, client_name, client_email, client_phone, date, start_time, end_time, status, notes, created_at, updated_at) ==
    [id |-> id, title |-> title, client_name |-> client_name,
     client_email |-> client_email, client_phone |-> client_phone,
     date |-> date, start_time |-> start_time, end_time |-> end_time,
     status |-> status, notes |-> notes,
     created_at |-> created_at, updated_at |-> updated_at]

to_dict(a) ==
    [id |-> a.id, title |-> a.title, client_name |-> a.client_name,
     client_email |-> a.client_email, client_phone |-> a.client_phone,
     date |-> date_isoformat(a.date),
     start_time |-> strftime_HM(a.start_time),
     end_time |-> strftime_HM(a.end_time),
     status |-> a.status, notes |-> a.notes,
     created_at |-> datetime_isoformat(a.created_at),
     updated_at |-> datetime_isoformat(a.updated_at)]

from_dict(d) ==
    Appointment(d.id, d.title, d.client_name, d.client_email, d.client_phone,
                date_fromisoformat(d.date),
                time_fromisoformat(d.start_time),
                time_fromisoformat(d.end_time),
                d.status, d.notes,
                datetime_fromisoformat(d.created_at),
                datetime_fromisoformat(d.updated_at))

duration_minutes(a) ==
    (combine(a.date, a.end_time) - combine(a.date, a.start_time))
        \div SecondsPerMinute

start_datetime(a) == combine(a.date, a.start_time)
end_datetime(a)   == combine(a.date, a.end_time)

\* the properties is_upcoming and is_past, t being the reading of
\* datetime.now() taken when the property is evaluated
is_upcoming(a, t) == start_datetime(a) > t /\ a.status = SCHEDULED
is_past(a, t)     == start_datetime(a) < t

(***************************************************************************)
(* AppointmentRepository over the file contents S (a list of dicts).       *)
(* An Optional result is <<>> (None) or <<x>>.                             *)
(***************************************************************************)
None    == <<>>
Some(x) == <<x>>

get_all(S) == [i \in 1..Len(S) |-> from_dict(S[i])]

IndexOfId(S, appt_id) ==
    LET I == {i \in 1..Len(S) : S[i].id = appt_id}
    IN  IF I = {} THEN 0 ELSE CHOOSE i \in I : \A j \in I : i <= j

get_by_id(S, appt_id) ==
    IF IndexOfId(S, appt_id) = 0 THEN None
    ELSE Some(from_dict(S[IndexOfId(S, appt_id)]))

\* variant: the new record is written alone
repo_create_alone(S, appt) == <<to_dict(appt)>>

repo_create(S, appt) == Append(S, to_dict(appt))

\* update(appt) at clock reading t: the first record with appt.id is replaced
\* and its updated_at set to t
repo_update_result(S, appt, t) ==
    IF IndexOfId(S, appt.id) = 0 THEN None
    ELSE Some([appt EXCEPT !.updated_at = t])

\* variant: the record is written without refreshing updated_at
repo_update_keep_stamp(S, appt, t) ==
    IF IndexOfId(S, appt.id) = 0 THEN S
    ELSE [S EXCEPT ![IndexOfId(S, appt.id)] = to_dict(appt)]

\* variant: a record that is not stored is appended
repo_update_upsert(S, appt, t) ==
    IF IndexOfId(S, appt.id) = 0
    THEN Append(S, to_dict([appt EXCEPT !.updated_at = t]))
    ELSE [S EXCEPT ![IndexOfId(S, appt.id)] =
              to_dict([appt EXCEPT !.updated_at = t])]

repo_update(S, appt, t) ==
    IF IndexOfId(S, appt.id) = 0 THEN S
    ELSE [S EXCEPT ![IndexOfId(S, appt.id)] =
              to_dict([appt EXCEPT !.updated_at = t])]

\* variant: only the first record with the id is removed
repo_delete_first(S, appt_id) ==
    IF IndexOfId(S, appt_id) = 0 THEN S
    ELSE SubSeq(S, 1, IndexOfId(S, appt_id) - 1)
         \o SubSeq(S, IndexOfId(S, appt_id) + 1, Len(S))

repo_delete(S, appt_id) ==
    LET Keep(r) == r.id # appt_id IN SelectSeq(S, Keep)

repo_delete_result(S, appt_id) == Len(repo_delete(S, appt_id)) # Len(S)

get_by_date(S, target_date) ==
    LET OnDate(a) == a.date = target_date IN SelectSeq(get_all(S), OnDate)

\* sorted(xs, key=lambda a: a.start_datetime): ascending and stable, the
\* element at i goes after the ones of smaller key and the earlier ones of
\* equal key
RankByStart(xs, i) ==
    1 + Cardinality({j \in 1..Len(xs) :
            \/ start_datetime(xs[j]) < start_datetime(xs[i])
            \/ start_datetime(xs[j]) = start_datetime(xs[i]) /\ j < i})

sorted_by_start(xs) ==
    [p \in 1..Len(xs) |->
        xs[CHOOSE i \in 1..Len(xs) : RankByStart(xs, i) = p]]

\* variant: the comparison with the clock written with >=
get_upcoming_from_now(S, t) ==
    LET Later(a) == start_datetime(a) >= t /\ a.status = SCHEDULED
    IN  sorted_by_start(SelectSeq(get_all(S), Later))

\* get_upcoming(), t being its reading of datetime.now()
get_upcoming(S, t) ==
    LET Later(a) == start_datetime(a) > t /\ a.status = SCHEDULED
    IN  sorted_by_start(SelectSeq(get_all(S), Later))

\* sum(1 for a in all_appts if a.status == status), ... if a.date == d
CountStatus(xs, status) == Cardinality({i \in 1..Len(xs) : xs[i].status = status})
CountDate(xs, d)        == Cardinality({i \in 1..Len(xs) : xs[i].date = d})

\* variant: the total counts the Scheduled appointments only
get_stats_scheduled_total(S, t1, t2) ==
    LET all_appts == get_all(S)
        today     == t1 \div 86400
    IN  [total     |-> CountStatus(all_appts, SCHEDULED),
         scheduled |-> CountStatus(all_appts, SCHEDULED),
         completed |-> CountStatus(all_appts, COMPLETED),
         cancelled |-> CountStatus(all_appts, CANCELLED),
         no_show   |-> CountStatus(all_appts, NO_SHOW),
         today     |-> CountDate(all_appts, today),
         upcoming  |-> Len(get_upcoming(S, t2))]

\* variant: upcoming counts every appointment that starts later, whatever
\* its status
get_stats_upcoming_any(S, t1, t2) ==
    LET all_appts == get_all(S)
        today     == t1 \div 86400
    IN  [total     |-> Len(all_appts),
         scheduled |-> CountStatus(all_appts, SCHEDULED),
         completed |-> CountStatus(all_appts, COMPLETED),
         cancelled |-> CountStatus(all_appts, CANCELLED),
         no_show   |-> CountStatus(all_appts, NO_SHOW),
         today     |-> CountDate(all_appts, today),
         upcoming  |-> Cardinality({i \in 1..Len(all_appts) :
                                      start_datetime(all_appts[i]) > t2})]

\* get_stats(): t1 is its own reading of datetime.now(), t2 the reading
\* taken by the get_upcoming() it calls
get_stats(S, t1, t2) ==
    LET all_appts == get_all(S)
        today     == t1 \div 86400
    IN  [total     |-> Len(all_appts),
         scheduled |-> CountStatus(all_appts, SCHEDULED),
         completed |-> CountStatus(all_appts, COMPLETED),
         cancelled |-> CountStatus(all_appts, CANCELLED),
         no_show   |-> CountStatus(all_appts, NO_SHOW),
         today     |-> CountDate(all_appts, today),
         upcoming  |-> Len(get_upcoming(S, t2))]

\* variant: client_phone is searched too
search_with_phone(S, query) ==
    LET q == strip(lower(query))
        Hit(a) == \/ IsSubstring(q, lower(a.title))
                  \/ IsSubstring(q, lower(a.client_name))
                  \/ IsSubstring(q, lower(a.client_email))
                  \/ IsSubstring(q, lower(a.client_phone))
                  \/ IsSubstring(q, lower(a.notes))
    IN  SelectSeq(get_all(S), Hit)

\* search(query)
search(S, query) ==
    LET q == strip(lower(query))
        Hit(a) == \/ IsSubstring(q, lower(a.title))
                  \/ IsSubstring(q, lower(a.client_name))
                  \/ IsSubstring(q, lower(a.client_email))
                  \/ IsSubstring(q, lower(a.notes))
    IN  SelectSeq(get_all(S), Hit)

(***************************************************************************)
(* AppointmentController.list_all: sorted(appts, key=key_map.get(sort_by,   *)
(* key_map["date"])), ascending and stable.                                *)
(***************************************************************************)
\* the order of the status labels as str
StatusOrd(status) ==
    CASE status = CANCELLED -> 1 [] status = COMPLETED -> 2
      [] status = NO_SHOW -> 3 [] status = SCHEDULED -> 4 [] OTHER -> 0

key_map == {"date", "client_name", "status", "title"}

\* key(a) < key(b) for the key function of sort_by
KeyLess(sort_by, a, b) ==
    CASE sort_by = "client_name" ->
            TextLess(lower(a.client_name), lower(b.client_name))
      [] sort_by = "status" -> StatusOrd(a.status) < StatusOrd(b.status)
      [] sort_by = "title" -> TextLess(lower(a.title), lower(b.title))
      [] OTHER -> \/ a.date < b.date
                  \/ a.date = b.date /\ a.start_time < b.start_time

RankByKey(xs, i, sort_by) ==
    1 + Cardinality({j \in 1..Len(xs) :
            \/ KeyLess(sort_by, xs[j], xs[i])
            \/ ~KeyLess(sort_by, xs[i], xs[j]) /\ j < i})

sorted_by_key(xs, sort_by) ==
    [p \in 1..Len(xs) |->
        xs[CHOOSE i \in 1..Len(xs) : RankByKey(xs, i, sort_by) = p]]

\* variant: the names and titles are compared as they are, not lower-cased
list_all_case_sensitive(S, sort_by) ==
    LET Less(a, b) ==
            CASE sort_by = "client_name" -> TextLess(a.client_name,
                                                     b.client_name)
              [] sort_by = "title" -> TextLess(a.title, b.title)
              [] OTHER -> KeyLess(sort_by, a, b)
        xs == get_all(S)
        Rank(i) == 1 + Cardinality({j \in 1..Len(xs) :
                          \/ Less(xs[j], xs[i])
                          \/ ~Less(xs[i], xs[j]) /\ j < i})
    IN  [p \in 1..Len(xs) |-> xs[CHOOSE i \in 1..Len(xs) : Rank(i) = p]]

list_all(S, sort_by) ==
    sorted_by_key(get_all(S), IF sort_by \in key_map THEN sort_by ELSE "date")

(***************************************************************************)
(* AppointmentController._check_conflict: first appointment of the same    *)
(* day, not excluded and not Cancelled, whose window overlaps.             *)
(***************************************************************************)
\* variant: closed intervals, touching windows count as overlapping
Conflicts_closed(existing, start_time, end_time, exclude_id) ==
    /\ ~(exclude_id # None /\ existing.id = exclude_id[1])
    /\ existing.status # CANCELLED
    /\ start_time <= existing.end_time
    /\ end_time >= existing.start_time

\* variant: every appointment that is not Scheduled is skipped
Conflicts_scheduled_only(existing, start_time, end_time, exclude_id) ==
    /\ ~(exclude_id # None /\ existing.id = exclude_id[1])
    /\ existing.status = SCHEDULED
    /\ start_time < existing.end_time
    /\ end_time > existing.start_time

\* variant: exclude_id is ignored, the updated record conflicts with itself
Conflicts_no_exclusion(existing, start_time, end_time, exclude_id) ==
    /\ existing.status # CANCELLED
    /\ start_time < existing.end_time
    /\ end_time > existing.start_time

\* variant: Cancelled appointments are not skipped
Conflicts_cancelled_too(existing, start_time, end_time, exclude_id) ==
    /\ ~(exclude_id # None /\ existing.id = exclude_id[1])
    /\ start_time < existing.end_time
    /\ end_time > existing.start_time

Conflicts(existing, start_time, end_time, exclude_id) ==
    /\ ~(exclude_id # None /\ existing.id = exclude_id[1])
    /\ existing.status # CANCELLED
    /\ start_time < existing.end_time
    /\ end_time > existing.start_time

\* variant: "return None" inside the loop, only the first appointment of
\* the day is examined
check_conflict_first_only(S, appt_date, start_time, end_time, exclude_id) ==
    LET same_day == get_by_date(S, appt_date)
    IN  IF same_day # <<>>
           /\ Conflicts(same_day[1], start_time, end_time, exclude_id)
        THEN Some(same_day[1])
        ELSE None

check_conflict(S, appt_date, start_time, end_time, exclude_id) ==
    LET same_day == get_by_date(S, appt_date)
        I == {i \in 1..Len(same_day) :
                Conflicts(same_day[i], start_time, end_time, exclude_id)}
    IN  IF I = {} THEN None
        ELSE Some(same_day[CHOOSE i \in I : \A j \in I : i <= j])

ConflictError(conflict) ==
    Msg("Time conflict with appointment",
        <<conflict.title, strftime_HM(conflict.start_time),
          strftime_HM(conflict.end_time)>>)

NotFound == Msg("Appointment not found.", <<>>)

(***************************************************************************)
(* Results handed back to the view: {"success", "errors", "appointment"},  *)
(* together with the file contents and the clock after the call.           *)
(***************************************************************************)
Outcome(S, clock, success, errors, appointment) ==
    [store |-> S, now |-> clock, success |-> success, errors |-> errors,
     appointment |-> appointment]

validate_fields(f) ==
    validate(f.title, f.client_name, f.client_email, f.client_phone,
             f.appt_date, f.start_time, f.end_time, f.status)

(***************************************************************************)
(* AppointmentController.create_appointment on file contents S with input  *)
(* f; id is the value generate_id returns, t1 and t2 the readings of       *)
(* datetime.now() taken for created_at and updated_at.                     *)
(***************************************************************************)
\* variant: the conflict check also runs when validation has failed and its
\* message is appended to the validator's
create_appointment_both(S, clock, f, id, t1, t2) ==
    LET errors   == validate_fields(f)
        conflict == check_conflict(S, f.appt_date, f.start_time, f.end_time,
                                   None)
        appt     == Appointment(id, f.title, f.client_name, f.client_email,
                                f.client_phone, f.appt_date, f.start_time,
                                f.end_time, f.status, f.notes, t1, t2)
        both     == IF conflict # None
                    THEN errors \o <<ConflictError(conflict[1])>>
                    ELSE errors
    IN  IF both # <<>> THEN Outcome(S, clock, FALSE, both, None)
        ELSE Outcome(repo_create(S, appt), t2, TRUE, <<>>, Some(appt))

\* variant: a Cancelled candidate is not checked for conflicts
create_appointment_skip_cancelled(S, clock, f, id, t1, t2) ==
    LET errors   == validate_fields(f)
        conflict == IF f.status = CANCELLED THEN None
                    ELSE check_conflict(S, f.appt_date, f.start_time,
                                        f.end_time, None)
        appt     == Appointment(id, f.title, f.client_name, f.client_email,
                                f.client_phone, f.appt_date, f.start_time,
                                f.end_time, f.status, f.notes, t1, t2)
    IN  IF errors # <<>> THEN Outcome(S, clock, FALSE, errors, None)
        ELSE IF conflict # None
             THEN Outcome(S, clock, FALSE, <<ConflictError(conflict[1])>>,
                          None)
        ELSE Outcome(repo_create(S, appt), t2, TRUE, <<>>, Some(appt))

\* variant: the two stamps of the constructor the other way round
create_appointment_swapped(S, clock, f, id, t1, t2) ==
    LET errors   == validate_fields(f)
        conflict == check_conflict(S, f.appt_date, f.start_time, f.end_time,
                                   None)
        appt     == Appointment(id, f.title, f.client_name, f.client_email,
                                f.client_phone, f.appt_date, f.start_time,
                                f.end_time, f.status, f.notes, t2, t1)
    IN  IF errors # <<>> THEN Outcome(S, clock, FALSE, errors, None)
        ELSE IF conflict # None
             THEN Outcome(S, clock, FALSE, <<ConflictError(conflict[1])>>,
                          None)
        ELSE Outcome(repo_create(S, appt), t2, TRUE, <<>>, Some(appt))

create_appointment(S, clock, f, id, t1, t2) ==
    LET errors   == validate_fields(f)
        conflict == check_conflict(S, f.appt_date, f.start_time, f.end_time,
                                   None)
        appt     == Appointment(id, f.title, f.client_name, f.client_email,
                                f.client_phone, f.appt_date, f.start_time,
                                f.end_time, f.status, f.notes, t1, t2)
    IN  IF errors # <<>> THEN Outcome(S, clock, FALSE, errors, None)
        ELSE IF conflict # None
             THEN Outcome(S, clock, FALSE, <<ConflictError(conflict[1])>>,
                          None)
        ELSE Outcome(repo_create(S, appt), t2, TRUE, <<>>, Some(appt))

(***************************************************************************)
(* AppointmentController.update_appointment; t is the reading of           *)
(* datetime.now() taken by Repository.update.                              *)
(***************************************************************************)
\* variant: the conflict check runs before the record is looked up
update_appointment_conflict_first(S, clock, appt_id, f, t) ==
    LET errors   == validate_fields(f)
        existing == get_by_id(S, appt_id)
        conflict == check_conflict(S, f.appt_date, f.start_time, f.end_time,
                                   Some(appt_id))
        changed  == [existing[1] EXCEPT
                        !.title = f.title,
                        !.client_name = f.client_name,
                        !.client_email = f.client_email,
                        !.client_phone = f.client_phone,
                        !.date = f.appt_date,
                        !.start_time = f.start_time,
                        !.end_time = f.end_time,
                        !.status = f.status,
                        !.notes = f.notes]
    IN  IF errors # <<>> THEN Outcome(S, clock, FALSE, errors, None)
        ELSE IF conflict # None
             THEN Outcome(S, clock, FALSE, <<ConflictError(conflict[1])>>,
                          None)
        ELSE IF existing = None
             THEN Outcome(S, clock, FALSE, <<NotFound>>, None)
        ELSE Outcome(repo_update(S, changed, t), t, TRUE, <<>>,
                     repo_update_result(S, changed, t))

\* variant: the record is rebuilt by the constructor, created_at is stamped
\* again
update_appointment_rebuild(S, clock, appt_id, f, t) ==
    LET errors   == validate_fields(f)
        existing == get_by_id(S, appt_id)
        conflict == check_conflict(S, f.appt_date, f.start_time, f.end_time,
                                   Some(appt_id))
        changed  == Appointment(appt_id, f.title, f.client_name,
                                f.client_email, f.client_phone, f.appt_date,
                                f.start_time, f.end_time, f.status, f.notes,
                                t, t)
    IN  IF errors # <<>> THEN Outcome(S, clock, FALSE, errors, None)
        ELSE IF existing = None
             THEN Outcome(S, clock, FALSE, <<NotFound>>, None)
        ELSE IF conflict # None
             THEN Outcome(S, clock, FALSE, <<ConflictError(conflict[1])>>,
                          None)
        ELSE Outcome(repo_update(S, changed, t), t, TRUE, <<>>,
                     repo_update_result(S, changed, t))

update_appointment(S, clock, appt_id, f, t) ==
    LET errors   == validate_fields(f)
        existing == get_by_id(S, appt_id)
        conflict == check_conflict(S, f.appt_date, f.start_time, f.end_time,
                                   Some(appt_id))
        changed  == [existing[1] EXCEPT
                        !.title = f.title,
                        !.client_name = f.client_name,
                        !.client_email = f.client_email,
                        !.client_phone = f.client_phone,
                        !.date = f.appt_date,
                        !.start_time = f.start_time,
                        !.end_time = f.end_time,
                        !.status = f.status,
                        !.notes = f.notes]
    IN  IF errors # <<>> THEN Outcome(S, clock, FALSE, errors, None)
        ELSE IF existing = None
             THEN Outcome(S, clock, FALSE, <<NotFound>>, None)
        ELSE IF conflict # None
             THEN Outcome(S, clock, FALSE, <<ConflictError(conflict[1])>>,
                          None)
        ELSE Outcome(repo_update(S, changed, t), t, TRUE, <<>>,
                     repo_update_result(S, changed, t))

(***************************************************************************)
(* AppointmentController.delete_appointment                                *)
(***************************************************************************)
delete_appointment(S, clock, appt_id) ==
    IF repo_delete_result(S, appt_id)
    THEN Outcome(repo_delete(S, appt_id), clock, TRUE, <<>>, None)
    ELSE Outcome(S, clock, FALSE, <<NotFound>>, None)

(***************************************************************************)
(* AppointmentController.update_status                                     *)
(***************************************************************************)
\* variant: a status change is refused when the record's window conflicts
update_status_checked(S, clock, appt_id, new_status, t) ==
    LET appt     == get_by_id(S, appt_id)
        changed  == [appt[1] EXCEPT !.status = new_status]
        conflict == check_conflict(S, appt[1].date, appt[1].start_time,
                                   appt[1].end_time, Some(appt_id))
    IN  IF appt = None THEN Outcome(S, clock, FALSE, <<NotFound>>, None)
        ELSE IF ~InALL(new_status)
             THEN Outcome(S, clock, FALSE, <<InvalidStatus(new_status)>>,
                          None)
        ELSE IF conflict # None
             THEN Outcome(S, clock, FALSE, <<ConflictError(conflict[1])>>,
                          None)
        ELSE Outcome(repo_update(S, changed, t), t, TRUE, <<>>,
                     Some([changed EXCEPT !.updated_at = t]))

\* variant: new_status is written without being looked up in ALL
update_status_any(S, clock, appt_id, new_status, t) ==
    LET appt    == get_by_id(S, appt_id)
        changed == [appt[1] EXCEPT !.status = new_status]
    IN  IF appt = None THEN Outcome(S, clock, FALSE, <<NotFound>>, None)
        ELSE Outcome(repo_update(S, changed, t), t, TRUE, <<>>,
                     Some([changed EXCEPT !.updated_at = t]))

update_status(S, clock, appt_id, new_status, t) ==
    LET appt    == get_by_id(S, appt_id)
        changed == [appt[1] EXCEPT !.status = new_status]
    IN  IF appt = None THEN Outcome(S, clock, FALSE, <<NotFound>>, None)
        ELSE IF ~InALL(new_status)
             THEN Outcome(S, clock, FALSE, <<InvalidStatus(new_status)>>,
                          None)
        ELSE Outcome(repo_update(S, changed, t), t, TRUE, <<>>,
                     Some([changed EXCEPT !.updated_at = t]))

(***************************************************************************)
(* Inputs offered to the controller.                                       *)
(***************************************************************************)
BaseTime == 9 * 3600
T0000 == BaseTime                    \* 09:00:00
T0030 == BaseTime + 30               \* 09:00:30
T1500 == BaseTime + MinDuration      \* 09:15:00
T1530 == BaseTime + MinDuration + 30 \* 09:15:30
T3000 == BaseTime + 2 * MinDuration  \* 09:30:00

Ids       == {"ID1", "ID2"}          \* values generate_id may return
MissingId == "ID0"                   \* an id generate_id does not return here
ArgIds    == Ids \cup {MissingId}

\* Appointment.generate_id: the first eight hex digits of a random uuid4;
\* nothing relates the value to the ids already stored.
generate_id == Ids

GoodEmail == <<"a", "@", ".">>

GoodText ==
    [title |-> <<"a">>, client_name |-> <<"n">>, client_email |-> GoodEmail,
     client_phone |-> <<"1">>, notes |-> <<>>]

OtherText ==
    [title |-> <<"b">>, client_name |-> <<"n">>, client_email |-> GoodEmail,
     client_phone |-> <<"1">>, notes |-> <<"m">>]

BadText ==
    [title |-> <<>>, client_name |-> <<"n">>, client_email |-> <<"a">>,
     client_phone |-> <<"1">>, notes |-> <<>>]

\* <<date, start_time, end_time>>
FirstWindow   == <<1, T0000, T1500>>      \* 09:00 to 09:15
SecondsWindow == <<1, T0030, T1530>>      \* 09:00:30 to 09:15:30
NextWindow    == <<1, T1500, T3000>>      \* 09:15 to 09:30
OtherDay      == <<2, T0000, T1500>>      \* 09:00 to 09:15, another day
ShortWindow   == <<1, T0030, T1500>>      \* fourteen and a half minutes
BackWindow    == <<1, T1500, T0000>>      \* ends before it starts

Windows == {FirstWindow, SecondsWindow, NextWindow, OtherDay}

NewStatuses == {SCHEDULED, COMPLETED, CANCELLED, NO_SHOW, "Bogus"}

MkFields(x, w, status) ==
    [title |-> x.title, client_name |-> x.client_name,
     client_email |-> x.client_email, client_phone |-> x.client_phone,
     appt_date |-> w[1], start_time |-> w[2], end_time |-> w[3],
     status |-> status, notes |-> x.notes]

Fields ==
    {MkFields(GoodText, w, SCHEDULED) : w \in Windows}
    \cup {MkFields(OtherText, w, SCHEDULED) : w \in {FirstWindow, SecondsWindow}}
    \cup {MkFields(GoodText, FirstWindow, CANCELLED),
          MkFields(GoodText, ShortWindow, SCHEDULED),
          MkFields(GoodText, BackWindow, SCHEDULED),
          MkFields(BadText, FirstWindow, SCHEDULED),
          MkFields(GoodText, FirstWindow, "Bogus")}

\* update_appointment is also given a Completed candidate
UpdateFields == Fields \cup {MkFields(GoodText, NextWindow, COMPLETED)}

(***************************************************************************)
(* data/seed.py: the ten demo appointments, dates as days from today, and  *)
(* seed_if_empty.  The texts of the seeds are stood for by SeedText.       *)
(***************************************************************************)
Today == 0

SeedText ==
    [title |-> <<"s">>, client_name |-> <<"n">>, client_email |-> GoodEmail,
     client_phone |-> <<"1">>, notes |-> <<"m">>]

Seed(id, days, start_time, end_time, status) ==
    [id |-> id, date |-> date_isoformat(Today + days),
     start_time |-> start_time, end_time |-> end_time, status |-> status]

SEEDS ==
    << Seed("A001",  1, << 9,  0>>, <<10,  0>>, SCHEDULED),
       Seed("A002",  2, <<14,  0>>, <<15, 30>>, SCHEDULED),
       Seed("A003",  0, <<11,  0>>, <<12,  0>>, SCHEDULED),
       Seed("A004", -3, <<10,  0>>, <<10, 45>>, COMPLETED),
       Seed("A005", -7, <<15,  0>>, <<16,  0>>, COMPLETED),
       Seed("A006", -2, <<13,  0>>, <<14,  0>>, CANCELLED),
       Seed("A007", -5, << 9, 30>>, <<10, 30>>, NO_SHOW),
       Seed("A008",  3, << 7,  0>>, << 8,  0>>, SCHEDULED),
       Seed("A009",  5, <<10,  0>>, <<11, 30>>, SCHEDULED),
       Seed("A010",  0, <<16,  0>>, <<17,  0>>, SCHEDULED) >>

SeedIds == {SEEDS[i].id : i \in 1..Len(SEEDS)}

\* seed_if_empty(repo): one Appointment built and repo.create'd per seed,
\* each stamped one reading of datetime.now() after the one before it; the
\* last seed takes reading 1, the latest reading when the session starts
seed_if_empty(S) ==
    IF get_all(S) # <<>> THEN S
    ELSE [i \in 1..Len(SEEDS) |->
            to_dict(Appointment(SEEDS[i].id, SeedText.title,
                                SeedText.client_name, SeedText.client_email,
                                SeedText.client_phone,
                                date_fromisoformat(SEEDS[i].date),
                                time_fromisoformat(SEEDS[i].start_time),
                                time_fromisoformat(SEEDS[i].end_time),
                                SEEDS[i].status, SeedText.notes,
                                i - Len(SEEDS) + 1, i - Len(SEEDS) + 1))]

\* id of the seed the calls are also made on, while it is stored
SeedArgIds == {"A001"}

CallIds(S) == ArgIds \cup {id \in SeedArgIds : IndexOfId(S, id) # 0}

\* records of the file that this session's create_appointment calls wrote
Created(S) == Cardinality({i \in 1..Len(S) : S[i].id \in Ids})

(***************************************************************************)
(* State machine: one controller, one caller, calls made one at a time.    *)
(*   store  the contents of the JSON file                                  *)
(*   now    the latest reading of datetime.now()                           *)
(*   session  st.session_state: active_page, edit_appt_id, view_appt_id     *)
(*   callers  the frames of the script threads inside the controller, used *)
(*            where two sessions call it at once; empty otherwise          *)
(*   last   the call in progress in the view: its arguments, the dict the  *)
(*          controller returned (for a query, the value returned, in       *)
(*          "appointment") and the file as it was before the call, or Idle *)
(*          once the view has shown the result and the script has rerun    *)
(* A reading taken after file I/O is later than every earlier reading; the *)
(* two readings inside the Appointment constructor may coincide.           *)
(***************************************************************************)
NoFields == [none |-> TRUE]

\* appoint_app.py, session state defaults
SessionDefaults ==
    [active_page |-> "dashboard", edit_appt_id |-> None, view_appt_id |-> None,
     confirm_delete |-> {}, confirm_delete_detail |-> FALSE]

NoCallers == <<>>

Idle == [op |-> "idle", appt_id |-> MissingId, fields |-> NoFields,
         success |-> TRUE, errors |-> <<>>, appointment |-> None,
         before |-> <<>>]

Returned(op, appt_id, f, o, before) ==
    [op |-> op, appt_id |-> appt_id, fields |-> f, success |-> o.success,
     errors |-> o.errors, appointment |-> o.appointment, before |-> before]

Init ==
    /\ store = <<>>
    /\ now = 0
    /\ last = Idle
    /\ session = SessionDefaults
    /\ callers = NoCallers

Apply(op, appt_id, f, o) ==
    /\ o.now <= MaxClock
    /\ Created(o.store) <= MaxRecords
    /\ store' = o.store
    /\ now' = o.now
    /\ last' = Returned(op, appt_id, f, o, store)
    /\ UNCHANGED <<session, callers>>

\* generate_id and the constructor are reached only past both checks
CreateAppointment ==
    /\ last.op = "idle"
    /\ \E f \in Fields :
         IF ~create_appointment(store, now, f, MissingId, now, now).success
         THEN Apply("create_appointment", MissingId, f,
                    create_appointment(store, now, f, MissingId, now, now))
         ELSE \E id \in generate_id, t2 \in {now + 1, now + 2} :
                 Apply("create_appointment", MissingId, f,
                       create_appointment(store, now, f, id, now + 1, t2))

UpdateAppointment ==
    /\ last.op = "idle"
    /\ \E appt_id \in CallIds(store), f \in UpdateFields :
        Apply("update_appointment", appt_id, f,
              update_appointment(store, now, appt_id, f, now + 1))

DeleteAppointment ==
    /\ last.op = "idle"
    /\ \E appt_id \in CallIds(store) :
        Apply("delete_appointment", appt_id, NoFields,
              delete_appointment(store, now, appt_id))

UpdateStatus ==
    /\ last.op = "idle"
    /\ \E appt_id \in CallIds(store), s \in NewStatuses :
        Apply("update_status", appt_id, [status |-> s],
              update_status(store, now, appt_id, s, now + 1))

\* Readings of datetime.now() offered to the queries, as datetimes in the
\* units of combine: just before, at and after the stored windows' starts.
EvalTimes ==
    {combine(1, T0000) - 1, combine(1, T0000), combine(1, T1500),
     combine(2, T0000)}

\* controller.get_upcoming()
GetUpcoming ==
    /\ last.op = "idle"
    /\ \E t \in EvalTimes :
        Apply("get_upcoming", MissingId, [now |-> t],
              Outcome(store, now, TRUE, <<>>, get_upcoming(store, t)))

\* controller.get_dashboard_stats(); the second reading is not earlier than
\* the first
GetStats ==
    /\ last.op = "idle"
    /\ \E t1 \in EvalTimes, t2 \in EvalTimes :
        /\ t1 <= t2
        /\ Apply("get_stats", MissingId, [now |-> t1, now_upcoming |-> t2],
                 Outcome(store, now, TRUE, <<>>,
                         Some(get_stats(store, t1, t2))))

\* the view renders result["errors"] or the success message and reruns
Rerun ==
    /\ last.op # "idle"
    /\ last' = Idle
    /\ UNCHANGED <<store, now, session, callers>>

Next ==
    \/ CreateAppointment
    \/ UpdateAppointment
    \/ DeleteAppointment
    \/ UpdateStatus
    \/ GetUpcoming
    \/ GetStats
    \/ Rerun

Spec == Init /\ [][Next]_vars

(***************************************************************************)
(* The same controller on the file as appoint_app.py leaves it at start:   *)
(* seed_if_empty has run on the empty file.  The empty file is kept as a   *)
(* start too (a repository used without the app).                          *)
(***************************************************************************)
InitSeeded ==
    /\ store \in {<<>>, seed_if_empty(<<>>)}
    /\ now = IF store = <<>> THEN 0 ELSE 1
    /\ last = Idle
    /\ session = SessionDefaults
    /\ callers = NoCallers

SpecSeeded == InitSeeded /\ [][Next]_vars

(***************************************************************************)
(* The repository and the controller's reads on their own: Init draws the  *)
(* file, one call of list_all, search or Repository.update is made.        *)
(***************************************************************************)
\* <<title, client_name, notes>>, <<date, start_time, end_time>>, status
RepoRecord(id, x, w, status) ==
    to_dict(Appointment(id, x[1], x[2], <<"b", "@", ".">>, <<"1">>,
                        w[1], w[2], w[3], status, x[3], 0, 0))

RepoRecords ==
    {RepoRecord(id, x, y[1], y[2]) :
        id \in Ids,
        x \in {<< <<"a">>, <<"b">>, <<>> >>, << <<"B">>, <<"A">>, <<"m">> >>},
        y \in {<<FirstWindow, SCHEDULED>>, <<NextWindow, CANCELLED>>,
               <<OtherDay, COMPLETED>>}}

RepoStores == UNION {[1..k -> RepoRecords] : k \in 0..MaxRecords}

SortKeys == key_map \cup {"created_at"}

Queries ==
    {<<>>, <<" ">>, <<"a">>, <<"A">>, <<"a", " ">>, <<"m">>, <<"1">>,
     <<"@">>, <<"m", " ">>}

\* the appointments handed to Repository.update
RepoUpdates ==
    {Appointment(id, <<"B">>, <<"n">>, GoodEmail, <<"1">>, w[1], w[2], w[3],
                 NO_SHOW, <<>>, 0, 0) :
        id \in ArgIds, w \in {SecondsWindow, OtherDay}}

InitRepo ==
    /\ store \in RepoStores
    /\ now = 0
    /\ last = Idle
    /\ session = SessionDefaults
    /\ callers = NoCallers

ListAll ==
    /\ last.op = "idle"
    /\ \E sort_by \in SortKeys :
        Apply("list_all", MissingId, [sort_by |-> sort_by],
              Outcome(store, now, TRUE, <<>>, list_all(store, sort_by)))

Search ==
    /\ last.op = "idle"
    /\ \E query \in Queries :
        Apply("search", MissingId, [query |-> query],
              Outcome(store, now, TRUE, <<>>, search(store, query)))

RepoUpdate ==
    /\ last.op = "idle"
    /\ \E appt \in RepoUpdates :
        Apply("repo_update", appt.id, appt,
              Outcome(repo_update(store, appt, now + 1), now + 1,
                      repo_update_result(store, appt, now + 1) # None, <<>>,
                      repo_update_result(store, appt, now + 1)))

SpecRepo == InitRepo /\ [][ListAll \/ Search \/ RepoUpdate]_vars

(***************************************************************************)
(* Two callers of the one controller: st.cache_resource hands every        *)
(* session the same object and each session's script runs in its own       *)
(* thread.  Nothing locks the file, so a call is a sequence of steps, one   *)
(* for each access to the file, and the steps of the two callers           *)
(* interleave.                                                             *)
(*   callers.file   "json" when the file parses, "empty" between           *)
(*                  open(path, "w") and the end of json.dump, "garbage"     *)
(*                  when a write has landed on a longer one                 *)
(*   callers.frame  each caller's position in its call, what it has read    *)
(*                  and what it is about to write                           *)
(*   callers.live   <<id, created_at>> of the records whose create has      *)
(*                  returned success and whose id no delete has removed     *)
(***************************************************************************)
Callers == {1, 2}

Frame(pc, op, appt_id, f, appt, local, towrite, result) ==
    [pc |-> pc, op |-> op, appt_id |-> appt_id, fields |-> f, appt |-> appt,
     local |-> local, towrite |-> towrite, result |-> result]

\* between calls; a call that returns, or whose json.load raises, leaves its
\* caller here: the locals are gone and the result is with the caller's page
IdleFrame == Frame("idle", "idle", MissingId, NoFields, None, <<>>, <<>>, "none")


\* the two callers book the same quarter of an hour
ConcurrentFields ==
    {MkFields(GoodText, w, SCHEDULED) : w \in {FirstWindow, SecondsWindow}}

\* create_appointment up to and including _check_conflict, on the records S
\* that get_by_date read: the errors it returns with, none when it goes on
create_checks(S, f) ==
    LET errors   == validate_fields(f)
        conflict == check_conflict(S, f.appt_date, f.start_time, f.end_time,
                                   None)
    IN  IF errors # <<>> THEN errors
        ELSE IF conflict # None THEN <<ConflictError(conflict[1])>>
        ELSE <<>>

\* variant: the conflict check is made again on the records read for the write
create_after_check_again(S, f, id, t) ==
    LET conflict == check_conflict(S, f.appt_date, f.start_time, f.end_time,
                                   None)
        appt     == Appointment(id, f.title, f.client_name, f.client_email,
                                f.client_phone, f.appt_date, f.start_time,
                                f.end_time, f.status, f.notes, t, t)
    IN  IF conflict # None
        THEN Outcome(S, t, FALSE, <<ConflictError(conflict[1])>>, None)
        ELSE Outcome(repo_create(S, appt), t, TRUE, <<>>, Some(appt))

\* create_appointment past the check: the constructor, then Repository.create
\* on the records S that its own _read returns
create_after_check(S, f, id, t) ==
    LET appt == Appointment(id, f.title, f.client_name, f.client_email,
                            f.client_phone, f.appt_date, f.start_time,
                            f.end_time, f.status, f.notes, t, t)
    IN  Outcome(repo_create(S, appt), t, TRUE, <<>>, Some(appt))

InitConcurrent ==
    /\ store = <<>>
    /\ now = 0
    /\ last = Idle
    /\ session = SessionDefaults
    /\ callers = [file |-> "json", frame |-> [c \in Callers |-> IdleFrame],
                  live |-> {}]

Step(c, fr) ==
    callers' = [callers EXCEPT !.frame[c] = fr]

\* validation and _check_conflict, which reads the file
BeginCreate ==
    \E c \in Callers, f \in ConcurrentFields :
        LET fr == [callers.frame[c] EXCEPT !.op = "create_appointment",
                                           !.appt_id = MissingId,
                                           !.fields = f]
        IN  /\ callers.frame[c].pc = "idle"
            /\ Step(c, IF callers.file # "json" THEN IdleFrame
                       ELSE IF create_checks(store, f) # <<>>
                            THEN IdleFrame
                       ELSE Frame("checked", fr.op, fr.appt_id, f, None,
                                  <<>>, <<>>, "none"))
            /\ UNCHANGED <<store, now, last, session>>

\* the constructor, then Repository.create as far as its _read and append
PersistCreate ==
    \E c \in Callers, id \in generate_id :
        LET fr == callers.frame[c]
            o  == create_after_check(store, fr.fields, id, now + 1)
        IN  /\ fr.pc = "checked"
            /\ fr.op = "create_appointment"
            /\ now + 1 <= MaxClock
            /\ Created(o.store) <= MaxRecords
            /\ Step(c, IF callers.file # "json" THEN IdleFrame
                       ELSE IF ~o.success THEN IdleFrame
                       ELSE Frame("read", fr.op, fr.appt_id, fr.fields,
                                  o.appointment, store, o.store, "none"))
            /\ now' = now + 1
            /\ UNCHANGED <<store, last, session>>

\* Repository.delete as far as its _read and the filter
BeginDelete ==
    \E c \in Callers, appt_id \in Ids :
        LET fr == [callers.frame[c] EXCEPT !.op = "delete_appointment",
                                           !.appt_id = appt_id]
        IN  /\ callers.frame[c].pc = "idle"
            /\ Step(c, IF callers.file # "json" THEN IdleFrame
                       ELSE IF ~repo_delete_result(store, appt_id)
                            THEN IdleFrame
                       ELSE Frame("read", fr.op, appt_id, NoFields, None,
                                  store, repo_delete(store, appt_id), "none"))
            /\ UNCHANGED <<store, now, last, session>>

\* update_status as far as get_by_id and the assignment of the status
BeginUpdateStatus ==
    \E c \in Callers, appt_id \in Ids :
        LET fr   == [callers.frame[c] EXCEPT !.op = "update_status",
                                             !.appt_id = appt_id]
            appt == get_by_id(store, appt_id)
        IN  /\ callers.frame[c].pc = "idle"
            /\ Step(c, IF callers.file # "json" THEN IdleFrame
                       ELSE IF appt = None THEN IdleFrame
                       ELSE Frame("checked", fr.op, appt_id,
                                  [status |-> CANCELLED],
                                  Some([appt[1] EXCEPT !.status = CANCELLED]),
                                  <<>>, <<>>, "none"))
            /\ UNCHANGED <<store, now, last, session>>

\* Repository.update as far as its _read and the loop; update_status returns
\* success also when the loop finds no record
PersistUpdate ==
    \E c \in Callers :
        LET fr    == callers.frame[c]
            found == repo_update_result(store, fr.appt[1], now + 1)
        IN  /\ fr.pc = "checked"
            /\ fr.op = "update_status"
            /\ now + 1 <= MaxClock
            /\ Step(c, IF callers.file # "json" THEN IdleFrame
                       ELSE IF found = None
                            THEN IdleFrame
                       ELSE Frame("read", fr.op, fr.appt_id, fr.fields,
                                  found, store,
                                  repo_update(store, fr.appt[1], now + 1),
                                  "none"))
            /\ now' = IF callers.file = "json" /\ found # None THEN now + 1 ELSE now
            /\ UNCHANGED <<store, last, session>>

\* _write, open(path, "w"): the file is truncated
Open ==
    \E c \in Callers :
        /\ callers.frame[c].pc = "read"
        /\ callers' = [callers EXCEPT !.frame[c].pc = "open",
                                      !.file = "empty"]
        /\ store' = <<>>
        /\ UNCHANGED <<now, last, session>>

\* what the file is after a caller's text is written from offset 0 over the
\* records S that another caller has written since this caller's open
Written(S, towrite) ==
    IF S = <<>> \/ Len(towrite) > Len(S) THEN {"json"}
    ELSE IF Len(towrite) < Len(S) THEN {"garbage"}
    ELSE {"json", "garbage"}

\* _write, json.dump and the close; the call returns
Dump ==
    \E c \in Callers :
        LET fr == callers.frame[c]
        IN  /\ fr.pc = "open"
            /\ \E file \in Written(store, fr.towrite) :
                 /\ store' = IF file = "json" THEN fr.towrite ELSE <<>>
                 /\ callers' =
                      [callers EXCEPT
                         !.frame[c] = IdleFrame,
                         !.file = file,
                         !.live =
                            IF fr.op = "create_appointment"
                            THEN @ \cup {<<fr.appt[1].id,
                                           fr.appt[1].created_at>>}
                            ELSE IF fr.op = "delete_appointment"
                                 THEN {k \in @ : k[1] # fr.appt_id}
                            ELSE @]
            /\ UNCHANGED <<now, last, session>>

NextConcurrent ==
    \/ BeginCreate
    \/ PersistCreate
    \/ BeginDelete
    \/ BeginUpdateStatus
    \/ PersistUpdate
    \/ Open
    \/ Dump

SpecConcurrent == InitConcurrent /\ [][NextConcurrent]_vars

(***************************************************************************)
(* One session of the Streamlit script.  Every click runs appoint_app.py   *)
(* from the top: the handler of the clicked button, then, after its        *)
(* st.rerun(), the page router.  session is st.session_state; the value of *)
(* session_state[f"confirm_delete_{id}"] is kept as the set of the ids     *)
(* for which it is True.                                                   *)
(***************************************************************************)
nav_items == {"dashboard", "list", "new"}

\* variant: the sidebar sets the page and leaves the ids as they are
navigate_page_only(s, page_key) == [s EXCEPT !.active_page = page_key]

\* a sidebar button
navigate(s, page_key) ==
    [s EXCEPT !.active_page = page_key, !.edit_appt_id = None,
              !.view_appt_id = None]

\* list view, "New"
list_new(s) == [s EXCEPT !.active_page = "new", !.edit_appt_id = None]

\* list view and detail view, "Edit" of an appointment
open_edit(s, appt_id) ==
    [s EXCEPT !.active_page = "edit", !.edit_appt_id = Some(appt_id)]

\* form view, after a successful submit and after "Cancel"
form_done(s) == [s EXCEPT !.active_page = "list", !.edit_appt_id = None]

\* the page router's own assignments: with no appointment selected the
\* edit and the detail page send the session to the list
Route(s) ==
    IF s.active_page = "edit" /\ s.edit_appt_id = None
    THEN [s EXCEPT !.active_page = "list"]
    ELSE IF s.active_page = "detail" /\ s.view_appt_id = None
         THEN [s EXCEPT !.active_page = "list"]
    ELSE s

\* what the form is submitted with
RouterFields ==
    {MkFields(GoodText, OtherDay, SCHEDULED),
     MkFields(GoodText, FirstWindow, SCHEDULED),
     MkFields(BadText, FirstWindow, SCHEDULED)}

Button(kind, page_key, appt_id, f) ==
    [kind |-> kind, page |-> page_key, appt_id |-> appt_id, fields |-> f]

\* the buttons of the list view; Rows are the rows whose buttons are clicked
ListButtons(s, S) ==
    LET Rows == {i \in 1..Len(S) : S[i].id \in CallIds(S)}
    IN  {Button("list_new", "list", MissingId, NoFields)}
        \cup {Button("list_edit", "list", S[i].id, NoFields) : i \in Rows}
        \cup {Button("done", "list", S[i].id, NoFields) :
                i \in {j \in Rows : S[j].status = SCHEDULED}}
        \cup {Button("resched", "list", S[i].id, NoFields) :
                i \in {j \in Rows : S[j].status = COMPLETED}}
        \cup {Button("del", "list", S[i].id, NoFields) : i \in Rows}
        \cup {Button(k, "list", S[i].id, NoFields) :
                k \in {"confirm_yes", "confirm_no"},
                i \in {j \in Rows : S[j].id \in s.confirm_delete}}

FormButtons(page_key) ==
    {Button("submit", page_key, MissingId, f) : f \in RouterFields}
    \cup {Button("cancel", page_key, MissingId, NoFields)}

DetailButtons(s, S) ==
    LET appt_id == s.view_appt_id[1]
        appt    == get_by_id(S, appt_id)
    IN  IF appt = None
        THEN {Button("detail_back_to_list", "detail", appt_id, NoFields)}
        ELSE {Button(k, "detail", appt_id, NoFields) :
                k \in {"detail_back", "detail_edit", "detail_del"}}
             \cup (IF appt[1].status = SCHEDULED
                   THEN {Button("detail_complete", "detail", appt_id, NoFields)}
                   ELSE IF appt[1].status # CANCELLED
                        THEN {Button("detail_cancel", "detail", appt_id,
                                     NoFields)}
                   ELSE {})
             \cup (IF s.confirm_delete_detail
                   THEN {Button(k, "detail", appt_id, NoFields) :
                           k \in {"detail_confirm_yes", "detail_confirm_no"}}
                   ELSE {})

\* the buttons the script renders in session state s on file contents S
Buttons(s, S) ==
    {Button("nav", p, MissingId, NoFields) : p \in nav_items}
    \cup (CASE s.active_page = "list" -> ListButtons(s, S)
            [] s.active_page = "new" -> FormButtons("new")
            [] s.active_page = "edit" ->
                 IF s.edit_appt_id # None
                    /\ get_by_id(S, s.edit_appt_id[1]) # None
                 THEN FormButtons("edit") ELSE {}
            [] s.active_page = "detail" ->
                 IF s.view_appt_id # None THEN DetailButtons(s, S) ELSE {}
            [] OTHER -> {})

Shown(s, o) == [session |-> s, store |-> o.store, now |-> o.now]

\* the handler of button b: the session state, the file and the clock after it
Handle(s, S, clock, b, id) ==
    LET same == Outcome(S, clock, TRUE, <<>>, None)
    IN  CASE b.kind = "nav" -> Shown(navigate(s, b.page), same)
          [] b.kind = "list_new" -> Shown(list_new(s), same)
          [] b.kind \in {"list_edit", "detail_edit"} ->
                Shown(open_edit(s, b.appt_id), same)
          [] b.kind \in {"done", "detail_complete"} ->
                Shown(s, update_status(S, clock, b.appt_id, COMPLETED,
                                       clock + 1))
          [] b.kind = "resched" ->
                Shown(s, update_status(S, clock, b.appt_id, SCHEDULED,
                                       clock + 1))
          [] b.kind = "detail_cancel" ->
                Shown(s, update_status(S, clock, b.appt_id, CANCELLED,
                                       clock + 1))
          [] b.kind = "del" ->
                Shown([s EXCEPT !.confirm_delete = @ \cup {b.appt_id}], same)
          [] b.kind = "confirm_yes" ->
                Shown([s EXCEPT !.confirm_delete = @ \ {b.appt_id}],
                      delete_appointment(S, clock, b.appt_id))
          [] b.kind = "confirm_no" ->
                Shown([s EXCEPT !.confirm_delete = @ \ {b.appt_id}], same)
          [] b.kind = "submit" ->
                LET o == IF b.page = "edit"
                         THEN update_appointment(S, clock, s.edit_appt_id[1],
                                                 b.fields, clock + 1)
                         ELSE create_appointment(S, clock, b.fields, id,
                                                 clock + 1, clock + 1)
                IN  Shown(IF o.success THEN form_done(s) ELSE s, o)
          [] b.kind = "cancel" -> Shown(form_done(s), same)
          [] b.kind = "detail_back_to_list" ->
                Shown([s EXCEPT !.active_page = "list"], same)
          [] b.kind = "detail_back" ->
                Shown([s EXCEPT !.active_page = "list",
                                !.view_appt_id = None], same)
          [] b.kind = "detail_del" ->
                Shown([s EXCEPT !.confirm_delete_detail = TRUE], same)
          [] b.kind = "detail_confirm_yes" ->
                Shown([s EXCEPT !.confirm_delete_detail = FALSE,
                                !.active_page = "list",
                                !.view_appt_id = None],
                      delete_appointment(S, clock, b.appt_id))
          [] OTHER ->
                Shown([s EXCEPT !.confirm_delete_detail = FALSE], same)

\* get_controller has seeded the empty file before the first run
InitRouter ==
    /\ store = seed_if_empty(<<>>)
    /\ now = 1
    /\ last = Idle
    /\ session = SessionDefaults
    /\ callers = NoCallers

Click ==
    \E b \in Buttons(session, store), id \in generate_id :
        LET r == Handle(session, store, now, b, id)
        IN  /\ r.now <= MaxClock
            /\ Created(r.store) <= MaxRecords
            /\ session' = Route(r.session)
            /\ store' = r.store
            /\ now' = r.now
            /\ UNCHANGED <<last, callers>>

SpecRouter == InitRouter /\ [][Click]_vars

(***************************************************************************)
(* Serialisation on its own: Init draws an appointment, ToDict writes its  *)
(* dict, FromDict reads the dict back.                                     *)
(***************************************************************************)
RAppointments ==
    {Appointment(id, x.title, x.client_name, x.client_email, x.client_phone,
                 d, st, et, s, x.notes, c, u) :
        id \in Ids, x \in {GoodText, OtherText}, d \in {1, 2},
        st \in {T0000, T0030, T1500, T1530},
        et \in {T0000, T0030, T1500, T1530},
        s \in {SCHEDULED, CANCELLED}, c \in 0..MaxClock, u \in 0..MaxClock}

InitRoundTrip ==
    /\ store = <<>>
    /\ now = 0
    /\ \E a \in RAppointments :
         last = [op |-> "call_to_dict", appt_id |-> a.id, fields |-> a,
                 success |-> TRUE, errors |-> <<>>, appointment |-> None,
                 before |-> <<>>]
    /\ session = SessionDefaults
    /\ callers = NoCallers

ToDict ==
    /\ last.op = "call_to_dict"
    /\ store' = <<to_dict(last.fields)>>
    /\ last' = [last EXCEPT !.op = "to_dict"]
    /\ UNCHANGED <<now, session, callers>>

FromDict ==
    /\ last.op = "to_dict"
    /\ last' = [last EXCEPT !.op = "from_dict",
                            !.appointment = Some(from_dict(store[1]))]
    /\ UNCHANGED <<store, now, session, callers>>

NextRoundTrip == ToDict \/ FromDict

SpecRoundTrip == InitRoundTrip /\ [][NextRoundTrip]_vars

(***************************************************************************)
(* The validator on its own: Init draws the arguments, Validate applies    *)
(* AppointmentValidator.validate to them.                                  *)
(***************************************************************************)
Alphabet == {" ", "a", "@", "."}

TextsUpTo(n) == UNION {[1..k -> Alphabet] : k \in 0..n}

VTitles   == {<<>>, <<" ">>, <<" ", "a">>}
VNames    == {<<" ", " ">>, <<"n">>}
VPhones   == {<<>>, <<"1", " ">>}
VEmails   == TextsUpTo(MaxLen)
VStatuses == {SCHEDULED, NO_SHOW, "Bogus"}
VTimes    == {T0000, T0030, T1500, T1530}

VFields ==
    [title : VTitles, client_name : VNames, client_email : VEmails,
     client_phone : VPhones, appt_date : {1}, start_time : VTimes,
     end_time : VTimes, status : VStatuses, notes : {<<>>}]

InitValidate ==
    /\ store = <<>>
    /\ now = 0
    /\ \E f \in VFields :
         last = [op |-> "call_validate", appt_id |-> MissingId, fields |-> f,
                 success |-> FALSE, errors |-> <<>>, appointment |-> None]
    /\ session = SessionDefaults
    /\ callers = NoCallers

Validate ==
    /\ last.op = "call_validate"
    /\ last' = [last EXCEPT !.op = "validate",
                            !.errors = validate_fields(last.fields),
                            !.success = (validate_fields(last.fields) = <<>>)]
    /\ UNCHANGED <<store, now, session, callers>>

NextValidate == Validate

SpecValidate == InitValidate /\ [][NextValidate]_vars

(***************************************************************************)
(* Properties.  The rules of the validator, stated on the text itself.     *)
(***************************************************************************)
Blank(s) == \A i \in 1..Len(s) : s[i] = " "

DotAfterLastAt(s) ==
    \E i \in 1..Len(s) : s[i] = "." /\ \E k \in 1..i : s[k] = "@"
                         /\ \A j \in i..Len(s) : s[j] # "@"

EmailRuleBroken(s) ==
    Blank(s) \/ (\A i \in 1..Len(s) : s[i] # "@") \/ ~DotAfterLastAt(s)

StatusLabels == {"Scheduled", "Completed", "Cancelled", "No Show"}

Count(seq, m) == Cardinality({i \in 1..Len(seq) : seq[i] = m})

One(c) == IF c THEN 1 ELSE 0

Validated == last.op = "validate"

\* C5: validate returns exactly one message for each violated rule (title,
\* client name, client e-mail, client phone, status, end after start,
\* fifteen-minute floor), every rule being evaluated, and nothing else.
C5_OneMessagePerRule ==
    Validated =>
        LET f == last.fields
            e == last.errors
            short == f.end_time - f.start_time < 15 * 60
        IN  /\ Count(e, TitleRequired) = One(Blank(f.title))
            /\ Count(e, NameRequired) = One(Blank(f.client_name))
            /\ Count(e, EmailRequired) = One(Blank(f.client_email))
            /\ Count(e, EmailInvalid)
                 = One(~Blank(f.client_email) /\ EmailRuleBroken(f.client_email))
            /\ Count(e, PhoneRequired) = One(Blank(f.client_phone))
            /\ Count(e, InvalidStatus(f.status))
                 = One(f.status \notin StatusLabels)
            /\ Count(e, EndAfterStart) = One(f.end_time <= f.start_time)
            /\ Count(e, TooShort) = One(short)
            /\ Len(e) = One(Blank(f.title)) + One(Blank(f.client_name))
                        + One(EmailRuleBroken(f.client_email))
                        + One(Blank(f.client_phone))
                        + One(f.status \notin StatusLabels)
                        + One(f.end_time <= f.start_time) + One(short)

\* an empty title with an e-mail that is no address: both messages returned
C5_Witness ==
    /\ Validated
    /\ last.fields.title = <<>>
    /\ last.fields.client_email = <<"a">>
    /\ Count(last.errors, TitleRequired) = 1
    /\ Count(last.errors, EmailInvalid) = 1

\* C6: the list holds "End time must be after start time." exactly when
\* end_time <= start_time, whatever the other fields are.
C6_OrderingError ==
    Validated =>
        (Count(last.errors, EndAfterStart) > 0
            <=> last.fields.end_time <= last.fields.start_time)

\* end_time equal to start_time together with invalid text fields
C6_Witness ==
    /\ Validated
    /\ last.fields.end_time = last.fields.start_time
    /\ Blank(last.fields.title)
    /\ last.fields.status \notin StatusLabels
    /\ Count(last.errors, EndAfterStart) = 1

(***************************************************************************)
(* Properties of the controller.  A call step takes last from Idle to the  *)
(* arguments and result of one call: store is the file before the call,    *)
(* store' the file after it.                                               *)
(***************************************************************************)
CallStep(op) == last.op = "idle" /\ last'.op = op

ValidWindow(f) ==
    f.end_time > f.start_time /\ f.end_time - f.start_time >= 15 * 60

ValidOtherFields(f) ==
    /\ ~Blank(f.title)
    /\ ~Blank(f.client_name)
    /\ ~EmailRuleBroken(f.client_email)
    /\ ~Blank(f.client_phone)
    /\ f.status \in StatusLabels

\* half-open overlap of the window of f with stored appointment B
OverlapsWindow(f, B) ==
    B.date = f.appt_date /\ f.start_time < B.end_time
                         /\ f.end_time > B.start_time

IdStored(S, appt_id) == \E k \in 1..Len(S) : S[k].id = appt_id

NotFoundErrors == <<[text |-> "Appointment not found.", arg |-> <<>>]>>

\* one message, naming title and HH:MM window of a stored, non-Cancelled
\* appointment outside `excluded` that overlaps the window of f
ConflictErrors(errors, S, f, excluded) ==
    /\ Len(errors) = 1
    /\ \E j \in 1..Len(S) :
         /\ S[j].id \notin excluded
         /\ S[j].status # "Cancelled"
         /\ OverlapsWindow(f, from_dict(S[j]))
         /\ errors[1] = [text |-> "Time conflict with appointment",
                         arg |-> <<S[j].title, S[j].start_time,
                                   S[j].end_time>>]

Excluded == IF last'.op = "update_appointment" THEN {last'.appt_id} ELSE {}

ConflictCase(i) ==
    /\ \/ CallStep("create_appointment")
       \/ /\ CallStep("update_appointment")
          /\ last'.appt_id # store[i].id
          /\ IdStored(store, last'.appt_id)
    /\ store[i].status # "Cancelled"
    /\ OverlapsWindow(last'.fields, from_dict(store[i]))
    /\ ValidOtherFields(last'.fields)

Rejected ==
    /\ ~last'.success
    /\ ConflictErrors(last'.errors, store, last'.fields, Excluded)
    /\ store' = store

\* C1 as stated: every candidate window that overlaps a stored non-Cancelled
\* appointment B on B's date, the other fields being valid, is rejected with
\* a conflict error by create_appointment and by update_appointment of
\* another stored id, and the file is left as it was.
C1_AnyWindow ==
    [][\A i \in 1..Len(store) : ConflictCase(i) => Rejected]_vars

\* C1 amended: the same for every candidate window that itself passes
\* validation (end after start, at least fifteen minutes).
C1_ConflictRejected ==
    [][\A i \in 1..Len(store) :
          (ConflictCase(i) /\ ValidWindow(last'.fields)) => Rejected]_vars

\* update_appointment of another stored id into an occupied window, rejected
C1_Witness ==
    /\ last.op = "update_appointment"
    /\ ~last.success
    /\ ValidWindow(last.fields)
    /\ Len(store) = 2
    /\ ConflictErrors(last.errors, store, last.fields, {last.appt_id})

\* C2 as stated: no two stored non-Cancelled appointments on the same date
\* have overlapping half-open windows, in every reachable state.  It is
\* stated for two records of different ids, so that a violation does not
\* rest on generate_id returning an id twice (C4).
C2_NoOverlap ==
    \A i, j \in 1..Len(store) :
        (/\ i < j
         /\ store[i].id # store[j].id
         /\ store[i].status # "Cancelled"
         /\ store[j].status # "Cancelled"
         /\ store[i].date = store[j].date)
        => ~(/\ from_dict(store[i]).start_time < from_dict(store[j]).end_time
             /\ from_dict(store[j]).start_time < from_dict(store[i]).end_time)

WrittenAt ==
    IF last'.op = "create_appointment" THEN Len(store')
    ELSE CHOOSE k \in 1..Len(store) :
            /\ store[k].id = last'.appt_id
            /\ \A m \in 1..(k - 1) : store[m].id # last'.appt_id

\* C2 amended: the check is made at write time only.  Right after a
\* successful create_appointment the new record overlaps no other stored
\* non-Cancelled record of its date, and right after a successful
\* update_appointment the updated record overlaps no stored non-Cancelled
\* record of its date that has a different id.
C2_NoOverlapAtWrite ==
    [][((CallStep("create_appointment") \/ CallStep("update_appointment"))
        /\ last'.success)
       => \A j \in 1..Len(store') :
            (/\ j # WrittenAt
             /\ store'[j].status # "Cancelled"
             /\ store'[j].date = store'[WrittenAt].date
             /\ (last'.op = "update_appointment"
                   => store'[j].id # store'[WrittenAt].id))
            => ~(/\ from_dict(store'[WrittenAt]).start_time
                      < from_dict(store'[j]).end_time
                 /\ from_dict(store'[j]).start_time
                      < from_dict(store'[WrittenAt]).end_time)]_vars

\* a second non-Cancelled appointment accepted on a date that has one
C2_Witness ==
    /\ last.op = "create_appointment"
    /\ last.success
    /\ Len(store) = 2
    /\ store[1].date = store[2].date
    /\ store[1].status # "Cancelled"
    /\ store[2].status # "Cancelled"

Minute(t) == t - (t % 60)

\* C3: a valid candidate that starts where a stored appointment of its date
\* ends (or ends where it starts) and overlaps no non-Cancelled appointment
\* is created, and the earlier records stay in the file.
C3_BackToBack ==
    [][(/\ CallStep("create_appointment")
        /\ ValidOtherFields(last'.fields)
        /\ ValidWindow(last'.fields)
        /\ \E i \in 1..Len(store) :
             /\ from_dict(store[i]).date = last'.fields.appt_date
             /\ \/ last'.fields.start_time = from_dict(store[i]).end_time
                \/ last'.fields.end_time = from_dict(store[i]).start_time
        /\ \A j \in 1..Len(store) :
             store[j].status # "Cancelled"
                => ~OverlapsWindow(last'.fields, from_dict(store[j])))
       => /\ last'.success
          /\ Len(store') = Len(store) + 1
          /\ \A i \in 1..Len(store) : store'[i] = store[i]
          /\ LET B == from_dict(store'[Len(store')])
                 f == last'.fields
             IN  /\ B.title = f.title
                 /\ B.client_name = f.client_name
                 /\ B.client_email = f.client_email
                 /\ B.client_phone = f.client_phone
                 /\ B.notes = f.notes
                 /\ B.status = f.status
                 /\ B.date = f.appt_date
                 /\ B.start_time = Minute(f.start_time)
                 /\ B.end_time = Minute(f.end_time)]_vars

\* the appointment just created starts where a stored Scheduled one ends
C3_Witness ==
    /\ last.op = "create_appointment"
    /\ last.success
    /\ Len(store) = 2
    /\ store[1].status = "Scheduled"
    /\ store[1].date = store[2].date
    /\ store[1].end_time = store[2].start_time
    /\ last.fields.start_time = from_dict(store[1]).end_time

\* C4: no two stored records have the same id.
C4_UniqueIds ==
    \A i, j \in 1..Len(store) : i # j => store[i].id # store[j].id


\* C7 as stated: update_appointment with an id that no record carries fails
\* with "Appointment not found." for every combination of field values, and
\* leaves the file as it was.
C7_AnyFields ==
    [][(CallStep("update_appointment") /\ ~IdStored(store, last'.appt_id))
       => /\ ~last'.success
          /\ last'.errors = NotFoundErrors
          /\ store' = store]_vars

\* C7 amended: with an id that no record carries update_appointment fails
\* and leaves the file as it was; the error is "Appointment not found." for
\* every combination of field values that passes validation (the validator
\* runs first, and its messages are returned otherwise).
C7_NotFound ==
    [][(CallStep("update_appointment") /\ ~IdStored(store, last'.appt_id))
       => /\ ~last'.success
          /\ store' = store
          /\ (ValidOtherFields(last'.fields) /\ ValidWindow(last'.fields))
                => last'.errors = NotFoundErrors
          /\ ~(ValidOtherFields(last'.fields) /\ ValidWindow(last'.fields))
                => last'.errors # NotFoundErrors]_vars

\* update_appointment of an absent id into an occupied window: not found
C7_Witness ==
    /\ last.op = "update_appointment"
    /\ ~IdStored(store, last.appt_id)
    /\ last.errors = NotFoundErrors
    /\ \E i \in 1..Len(store) :
         /\ store[i].status # "Cancelled"
         /\ OverlapsWindow(last.fields, from_dict(store[i]))

FailedWrite ==
    /\ CallStep("create_appointment") \/ CallStep("update_appointment")
    /\ ~last'.success

ValidatorErrors ==
    /\ validate_fields(last'.fields) # <<>>
    /\ last'.errors = validate_fields(last'.fields)

ConflictOnly ==
    /\ validate_fields(last'.fields) = <<>>
    /\ ConflictErrors(last'.errors, store, last'.fields, Excluded)

\* C8 as stated: a failed create_appointment or update_appointment leaves
\* the file as it was, and its errors are either the validator's messages
\* verbatim or one conflict message naming the conflicting appointment,
\* never both.
C8_TwoKinds ==
    [][FailedWrite => (store' = store /\ (ValidatorErrors \/ ConflictOnly))]_vars

\* C8 amended: the same, with a third kind for update_appointment: the
\* single message "Appointment not found." when the fields pass validation
\* and no record carries the id.
C8_FailedWrite ==
    [][FailedWrite
       => /\ store' = store
          /\ \/ ValidatorErrors
             \/ ConflictOnly
             \/ /\ last'.op = "update_appointment"
                /\ validate_fields(last'.fields) = <<>>
                /\ ~IdStored(store, last'.appt_id)
                /\ last'.errors = NotFoundErrors]_vars

\* a create whose window is too short and also overlaps a stored Scheduled
\* appointment: only the validator's message comes back
C8_Witness ==
    /\ last.op = "create_appointment"
    /\ ~last.success
    /\ last.errors = validate_fields(last.fields)
    /\ \E i \in 1..Len(store) :
         /\ store[i].status # "Cancelled"
         /\ OverlapsWindow(last.fields, from_dict(store[i]))

FirstWithId(S, appt_id) ==
    CHOOSE k \in 1..Len(S) :
        S[k].id = appt_id /\ \A m \in 1..(k - 1) : S[m].id # appt_id

\* C9: update_status(id, s) on a stored id with s one of the four labels
\* succeeds; get_by_id(id) then shows status s, a later updated_at and every
\* other field as before, and every other record is as before.
C9_StatusOnly ==
    [][(/\ CallStep("update_status")
        /\ IdStored(store, last'.appt_id)
        /\ last'.fields.status \in StatusLabels)
       => /\ last'.success
          /\ get_by_id(store', last'.appt_id) # None
          /\ LET old == get_by_id(store, last'.appt_id)[1]
                 new == get_by_id(store', last'.appt_id)[1]
             IN  /\ new.status = last'.fields.status
                 /\ new.updated_at > old.updated_at
                 /\ new.id = old.id
                 /\ new.title = old.title
                 /\ new.client_name = old.client_name
                 /\ new.client_email = old.client_email
                 /\ new.client_phone = old.client_phone
                 /\ new.date = old.date
                 /\ new.start_time = old.start_time
                 /\ new.end_time = old.end_time
                 /\ new.notes = old.notes
                 /\ new.created_at = old.created_at
          /\ Len(store') = Len(store)
          /\ \A i \in 1..Len(store) :
               i # FirstWithId(store, last'.appt_id) => store'[i] = store[i]]_vars

\* a stored appointment set to Completed next to another stored record
C9_Witness ==
    /\ last.op = "update_status"
    /\ last.success
    /\ last.fields.status = "Completed"
    /\ Len(store) = 2
    /\ get_by_id(store, last.appt_id)[1].status = "Completed"
    /\ get_by_id(store, last.appt_id)[1].updated_at
         > get_by_id(store, last.appt_id)[1].created_at

\* C10: update_status fails exactly when no record carries the id or the
\* status is none of the four labels, and then leaves the file as it was;
\* it succeeds in every other case, overlapping windows included.
C10_FailsExactly ==
    [][CallStep("update_status")
       => /\ ~last'.success
               <=> (~IdStored(store, last'.appt_id)
                    \/ last'.fields.status \notin StatusLabels)
          /\ ~last'.success => store' = store]_vars

\* update_status has succeeded on a record that overlaps another
\* non-Cancelled record of a different id on its date
C10_Witness ==
    /\ last.op = "update_status"
    /\ last.success
    /\ last.fields.status # "Cancelled"
    /\ \E i, j \in 1..Len(store) :
         /\ store[i].id = last.appt_id
         /\ store[j].id # last.appt_id
         /\ store[j].status # "Cancelled"
         /\ store[i].date = store[j].date
         /\ from_dict(store[i]).start_time < from_dict(store[j]).end_time
         /\ from_dict(store[j]).start_time < from_dict(store[i]).end_time

OtherIds(S, appt_id) == SelectSeq(S, LAMBDA r : r.id # appt_id)

\* C11: delete_appointment(id) fails exactly when no record carries the id,
\* and then leaves the file as it was; when it succeeds get_by_id(id) finds
\* nothing afterwards and the records of every other id are stored as
\* before, in their order.
C11_Delete ==
    [][CallStep("delete_appointment")
       => /\ ~last'.success <=> ~IdStored(store, last'.appt_id)
          /\ ~last'.success => store' = store
          /\ last'.success
               => /\ get_by_id(store', last'.appt_id) = <<>>
                  /\ ~IdStored(store', last'.appt_id)
                  /\ OtherIds(store', last'.appt_id)
                       = OtherIds(store, last'.appt_id)
                  /\ Len(store') = Len(OtherIds(store, last'.appt_id))]_vars

\* one of two stored records deleted, the other one still stored
C11_Witness ==
    /\ last.op = "delete_appointment"
    /\ last.success
    /\ Len(last.before) = 2
    /\ Len(store) = 1
    /\ store[1].id # last.appt_id

\* C15: under update_appointment and update_status no record's id or
\* created_at changes; a successful call sets updated_at of the record it
\* updates to the clock reading of the call, later than every reading
\* before it, and leaves updated_at of the other records alone; a failed
\* call leaves every updated_at alone.
C15_Stamps ==
    [][(CallStep("update_appointment") \/ CallStep("update_status"))
       => /\ Len(store') = Len(store)
          /\ \A i \in 1..Len(store) :
               /\ store'[i].id = store[i].id
               /\ from_dict(store'[i]).created_at
                    = from_dict(store[i]).created_at
          /\ last'.success
               => LET k == FirstWithId(store, last'.appt_id)
                  IN  /\ from_dict(store'[k]).updated_at = now'
                      /\ now' > now
                      /\ now' > from_dict(store[k]).updated_at
                      /\ \A i \in 1..Len(store) :
                           i # k => store'[i].updated_at = store[i].updated_at
          /\ ~last'.success
               => \A i \in 1..Len(store) :
                     store'[i].updated_at = store[i].updated_at]_vars

\* update_appointment has rewritten one of two records: its updated_at is
\* the reading of the call, its created_at the older one
C15_Witness ==
    /\ last.op = "update_appointment"
    /\ last.success
    /\ Len(store) = 2
    /\ \E k \in 1..Len(store) :
         /\ store[k].id = last.appt_id
         /\ from_dict(store[k]).updated_at = now
         /\ from_dict(store[k]).created_at < now
         /\ store[k].created_at = last.before[k].created_at
         /\ store[k].title # last.before[k].title

\* C16: update_appointment of a stored id with valid fields, whose window
\* overlaps the stored window of the record being updated and no other
\* non-Cancelled record of that date, succeeds and writes the fields.
C16_SelfExcluded ==
    [][(/\ CallStep("update_appointment")
        /\ IdStored(store, last'.appt_id)
        /\ ValidOtherFields(last'.fields)
        /\ ValidWindow(last'.fields)
        /\ OverlapsWindow(last'.fields,
               from_dict(store[FirstWithId(store, last'.appt_id)]))
        /\ \A j \in 1..Len(store) :
             (/\ store[j].status # "Cancelled"
              /\ OverlapsWindow(last'.fields, from_dict(store[j])))
             => j = FirstWithId(store, last'.appt_id))
       => /\ last'.success
          /\ LET B == from_dict(store'[FirstWithId(store, last'.appt_id)])
                 f == last'.fields
             IN  /\ B.id = last'.appt_id
                 /\ B.title = f.title
                 /\ B.status = f.status
                 /\ B.date = f.appt_date
                 /\ B.start_time = Minute(f.start_time)
                 /\ B.end_time = Minute(f.end_time)]_vars

\* a non-Cancelled record updated into a window that overlaps the window it
\* had, next to another stored record
C16_Witness ==
    /\ last.op = "update_appointment"
    /\ last.success
    /\ Len(last.before) = 2
    /\ LET k == FirstWithId(last.before, last.appt_id)
       IN  /\ last.before[k].status # "Cancelled"
           /\ last.fields.status # "Cancelled"
           /\ OverlapsWindow(last.fields, from_dict(last.before[k]))

OnlyCancelledOverlap(S, f) ==
    /\ \E j \in 1..Len(S) :
         S[j].status = "Cancelled" /\ OverlapsWindow(f, from_dict(S[j]))
    /\ \A j \in 1..Len(S) :
         OverlapsWindow(f, from_dict(S[j])) => S[j].status = "Cancelled"

\* C17: a candidate with valid fields whose window overlaps stored
\* appointments of its date, all of them Cancelled, is accepted by
\* create_appointment and by update_appointment of a stored id.
C17_CancelledDiscarded ==
    [][(/\ \/ CallStep("create_appointment")
           \/ (CallStep("update_appointment")
               /\ IdStored(store, last'.appt_id))
        /\ ValidOtherFields(last'.fields)
        /\ ValidWindow(last'.fields)
        /\ OnlyCancelledOverlap(store, last'.fields))
       => /\ last'.success
          /\ last'.op = "create_appointment"
               => /\ Len(store') = Len(store) + 1
                  /\ \A i \in 1..Len(store) : store'[i] = store[i]]_vars

\* a non-Cancelled appointment created in the window of a Cancelled one
C17_Witness ==
    /\ last.op = "create_appointment"
    /\ last.success
    /\ last.fields.status # "Cancelled"
    /\ OnlyCancelledOverlap(last.before, last.fields)

\* C12 as stated: from_dict(to_dict(appt)) equals appt in every field, for
\* every appointment, times with seconds included.
C12_RoundTrip ==
    last.op = "from_dict" => last.appointment[1] = last.fields

\* C12 amended: from_dict(to_dict(appt)) equals appt in every field except
\* that start_time and end_time come back cut to the whole minute; it
\* equals appt exactly when both times have no seconds, and the two
\* timestamps come back as they were.
C12_RoundTripToMinute ==
    last.op = "from_dict" =>
        LET a == last.fields
            b == last.appointment[1]
        IN  /\ b = [a EXCEPT !.start_time = Minute(a.start_time),
                             !.end_time = Minute(a.end_time)]
            /\ (a.start_time % 60 = 0 /\ a.end_time % 60 = 0) <=> b = a
            /\ b.created_at = a.created_at
            /\ b.updated_at = a.updated_at

\* an appointment from 09:00:30 to 09:15:30 read back as 09:00 to 09:15
C12_Witness ==
    /\ last.op = "from_dict"
    /\ last.fields.start_time = 9 * 3600 + 30
    /\ last.fields.end_time = 9 * 3600 + 15 * 60 + 30
    /\ last.fields.created_at # last.fields.updated_at
    /\ last.appointment[1].start_time = 9 * 3600
    /\ last.appointment[1].end_time = 9 * 3600 + 15 * 60

\* C13: the status of every stored record is one of the four labels, from
\* the empty and from the seeded file, after any calls of the controller.
C13_StatusInALL ==
    \A i \in 1..Len(store) : store[i].status \in StatusLabels

\* update_status with a label outside ALL has been refused on a stored id
C13_Witness ==
    /\ last.op = "update_status"
    /\ ~last.success
    /\ last.fields.status \notin StatusLabels
    /\ IdStored(store, last.appt_id)
    /\ \E i \in 1..Len(store) : store[i].status = "No Show"
    /\ \E i \in 1..Len(store) : store[i].id \in {"ID1", "ID2"}

\* C14: every stored record, as read back from the file, ends after it
\* starts and lasts at least fifteen minutes, from the empty and from the
\* seeded file, after any calls of the controller.
C14_DurationFloor ==
    \A i \in 1..Len(store) :
        LET a == from_dict(store[i])
        IN  /\ a.end_time > a.start_time
            /\ duration_minutes(a) >= 15

\* a window given with seconds, 09:00:30 to 09:15:30, accepted and stored
C14_Witness ==
    /\ last.op \in {"create_appointment", "update_appointment"}
    /\ last.success
    /\ last.fields.start_time % 60 # 0
    /\ last.fields.end_time - last.fields.start_time = 15 * 60
    /\ \E i \in 1..Len(store) :
         /\ store[i].id = last.appointment[1].id
         /\ duration_minutes(from_dict(store[i])) = 15

\* C18: right after a create_appointment or update_appointment that returned
\* success with appointment a, get_by_id(a.id) returns a record equal to a
\* in every field.  It is stated for windows given in whole minutes, so that
\* a violation does not rest on the seconds that to_dict drops (C12).
C18_ReadYourWrite ==
    (/\ last.op \in {"create_appointment", "update_appointment"}
     /\ last.success
     /\ last.fields.start_time % 60 = 0
     /\ last.fields.end_time % 60 = 0)
    => get_by_id(store, last.appointment[1].id) = last.appointment

\* C19: the total of get_stats() is the length of get_all(), the number of
\* records in the file, whatever calls came before.
C19_Total ==
    last.op = "get_stats"
    => /\ last.appointment[1].total = Len(get_all(store))
       /\ last.appointment[1].total = Len(store)

\* get_stats() on a file of two records, one of them not Scheduled
C19_Witness ==
    /\ last.op = "get_stats"
    /\ Len(store) = 2
    /\ last.appointment[1].total = 2
    /\ last.appointment[1].scheduled = 1

UpcomingAt(a, t) ==
    a.status = "Scheduled" /\ a.date * 86400 + a.start_time > t

Occurrences(xs, a) == Cardinality({i \in 1..Len(xs) : xs[i] = a})

\* C20: get_upcoming() returns exactly the stored records that are
\* Scheduled and start strictly after its clock reading, the records whose
\* is_upcoming is true at that reading, in ascending order of
\* start_datetime; a record starting at the reading is neither upcoming nor
\* past; the upcoming count of get_stats() is the number of such records at
\* the reading its get_upcoming() took.
C20_Upcoming ==
    /\ last.op = "get_upcoming"
        => LET t   == last.fields.now
               r   == last.appointment
               all == get_all(store)
           IN  /\ \A i \in 1..Len(r) : UpcomingAt(r[i], t)
               /\ \A k \in 1..Len(all) :
                    Occurrences(r, all[k])
                      = IF UpcomingAt(all[k], t)
                        THEN Occurrences(all, all[k]) ELSE 0
               /\ Len(r) = Cardinality({k \in 1..Len(all) :
                                          UpcomingAt(all[k], t)})
               /\ \A i, j \in 1..Len(r) :
                    i < j => r[i].date * 86400 + r[i].start_time
                               <= r[j].date * 86400 + r[j].start_time
               /\ \A k \in 1..Len(all) :
                    /\ is_upcoming(all[k], t) <=> UpcomingAt(all[k], t)
                    /\ all[k].date * 86400 + all[k].start_time = t
                         => ~is_upcoming(all[k], t) /\ ~is_past(all[k], t)
    /\ last.op = "get_stats"
        => last.appointment[1].upcoming
             = Cardinality({k \in 1..Len(store) :
                   UpcomingAt(from_dict(store[k]), last.fields.now_upcoming)})

\* get_upcoming() read the clock at the very start of a stored Scheduled
\* appointment: that one is left out, a later one is returned
C20_Witness ==
    /\ last.op = "get_upcoming"
    /\ Len(last.appointment) = 1
    /\ \E k \in 1..Len(store) :
         /\ store[k].status = "Scheduled"
         /\ from_dict(store[k]).date * 86400 + from_dict(store[k]).start_time
              = last.fields.now
         /\ from_dict(store[k]) # last.appointment[1]

\* C24: a candidate with valid fields whose status is not Scheduled and
\* whose valid window overlaps a stored non-Cancelled appointment of its
\* date is rejected with the conflict error, the file left as it was, by
\* create_appointment and by update_appointment of another stored id; the
\* errors are those the same candidate gets with status Scheduled.
C24_OwnStatusIgnored ==
    [][\A i \in 1..Len(store) :
          (/\ ConflictCase(i)
           /\ ValidWindow(last'.fields)
           /\ last'.fields.status # "Scheduled")
          => /\ Rejected
             /\ LET g == [last'.fields EXCEPT !.status = "Scheduled"]
                IN  last'.errors
                      = IF last'.op = "create_appointment"
                        THEN create_appointment(store, now, g, MissingId,
                                                now, now).errors
                        ELSE update_appointment(store, now, last'.appt_id, g,
                                                now + 1).errors]_vars

\* a Cancelled candidate refused by create_appointment for its window
C24_Witness ==
    /\ last.op = "create_appointment"
    /\ ~last.success
    /\ last.fields.status = "Cancelled"
    /\ ConflictErrors(last.errors, store, last.fields, {})

\* C27: the four status counts of get_stats() add up to total and upcoming
\* is at most scheduled, from the empty and from the seeded file.
C27_StatsAddUp ==
    last.op = "get_stats"
    => LET st == last.appointment[1]
       IN  /\ st.scheduled + st.completed + st.cancelled + st.no_show
                = st.total
           /\ st.upcoming <= st.scheduled
           /\ st.total = Len(store)

\* get_stats() on a file with a Cancelled appointment that starts later
\* than the reading: it is counted in cancelled, not in upcoming
C27_Witness ==
    /\ last.op = "get_stats"
    /\ last.appointment[1].cancelled >= 1
    /\ last.appointment[1].upcoming < last.appointment[1].total
    /\ \E i \in 1..Len(store) :
         /\ store[i].status = "Cancelled"
         /\ store[i].id \in {"ID1", "ID2"}
         /\ from_dict(store[i]).date * 86400 + from_dict(store[i]).start_time
              > last.fields.now_upcoming

SameRecord(r, q) == r.id = q.id /\ r.created_at = q.created_at

\* C28: the clock never going back, every stored record has updated_at at
\* or after created_at, from the empty and from the seeded file, and a call
\* never leaves a record (same id, same created_at) with an earlier
\* updated_at than it had before the call.
C28_Stamps ==
    /\ \A i \in 1..Len(store) :
         from_dict(store[i]).updated_at >= from_dict(store[i]).created_at
    /\ last.op # "idle"
        => \A i \in 1..Len(last.before), j \in 1..Len(store) :
              SameRecord(last.before[i], store[j])
              => from_dict(store[j]).updated_at
                   >= from_dict(last.before[i]).updated_at

\* a record created with two different stamps and then updated
C28_Witness ==
    /\ last.op \in {"update_appointment", "update_status"}
    /\ last.success
    /\ \E i \in 1..Len(last.before), j \in 1..Len(store) :
         /\ SameRecord(last.before[i], store[j])
         /\ store[j].id \in {"ID1", "ID2"}
         /\ from_dict(last.before[i]).updated_at
              > from_dict(last.before[i]).created_at
         /\ from_dict(store[j]).updated_at
              > from_dict(last.before[i]).updated_at

Ascending(r, sort_by) ==
    \A i, j \in 1..Len(r) :
        i < j =>
          CASE sort_by = "client_name" ->
                  ~TextLess(lower(r[j].client_name), lower(r[i].client_name))
            [] sort_by = "status" ->
                  StatusOrd(r[i].status) <= StatusOrd(r[j].status)
            [] sort_by = "title" ->
                  ~TextLess(lower(r[j].title), lower(r[i].title))
            [] OTHER ->
                  \/ r[i].date < r[j].date
                  \/ r[i].date = r[j].date
                     /\ r[i].start_time <= r[j].start_time

\* C21: list_all(sort_key) returns the appointments of get_all(), each as
\* often as it is stored, ascending by (date, start_time) for "date", by
\* lower-cased client name for "client_name", by status label for "status"
\* and by lower-cased title for "title"; any other key gives the list that
\* "date" gives.
C21_ListAll ==
    last.op = "list_all"
    => LET r   == last.appointment
           all == get_all(store)
           k   == last.fields.sort_by
       IN  /\ Len(r) = Len(all)
           /\ \A i \in 1..Len(all) :
                Occurrences(r, all[i]) = Occurrences(all, all[i])
           /\ Ascending(r, IF k \in {"date", "client_name", "status", "title"}
                           THEN k ELSE "date")
           /\ k \notin {"date", "client_name", "status", "title"}
                => r = list_all(store, "date")

\* sorted by title, "a" put before "B" although "B" is stored first
C21_Witness ==
    /\ last.op = "list_all"
    /\ last.fields.sort_by = "title"
    /\ Len(store) = 2
    /\ store[1].title = <<"B">>
    /\ store[2].title = <<"a">>
    /\ last.appointment[1].title = <<"a">>
    /\ last.appointment[2].title = <<"B">>

SearchedIn(q, a) ==
    \/ IsSubstring(lower(q), lower(a.title))
    \/ IsSubstring(lower(q), lower(a.client_name))
    \/ IsSubstring(lower(q), lower(a.client_email))
    \/ IsSubstring(lower(q), lower(a.notes))

Matching(S, q) == LET Hit(a) == SearchedIn(q, a) IN SelectSeq(get_all(S), Hit)

\* C22 as stated: search(query) returns exactly the stored records in which
\* the query, case-insensitively, is a substring of title, client_name,
\* client_email or notes; for an empty or whitespace-only query it returns
\* every stored record.
C22_Search ==
    last.op = "search"
    => IF Blank(last.fields.query)
       THEN last.appointment = get_all(store)
       ELSE last.appointment = Matching(store, last.fields.query)

\* C22 amended: the same with the query stripped of leading and trailing
\* whitespace before it is looked for.
C22_SearchStripped ==
    last.op = "search"
    => /\ last.appointment = Matching(store, strip(last.fields.query))
       /\ Blank(last.fields.query) => last.appointment = get_all(store)

\* the query "m " finds the record whose notes are "m" and not the other
C22_Witness ==
    /\ last.op = "search"
    /\ last.fields.query = <<"m", " ">>
    /\ Len(store) = 2
    /\ Len(last.appointment) = 1
    /\ last.appointment[1].notes = <<"m">>

\* C23: Repository.update(appt) keeps the number of records; when no record
\* has appt.id it returns None and leaves the file as it was; otherwise the
\* first record with the id holds appt's fields (times as HH:MM) with
\* updated_at the reading of the call, every other record is as before, and
\* appt is returned with that updated_at.
C23_RepoUpdate ==
    last.op = "repo_update"
    => LET a == last.fields
       IN  /\ Len(store) = Len(last.before)
           /\ ~IdStored(last.before, a.id)
                => /\ last.appointment = <<>>
                   /\ store = last.before
           /\ IdStored(last.before, a.id)
                => LET k == FirstWithId(last.before, a.id)
                   IN  /\ from_dict(store[k])
                            = [a EXCEPT !.updated_at = now,
                                        !.start_time = Minute(a.start_time),
                                        !.end_time = Minute(a.end_time)]
                       /\ now > from_dict(last.before[k]).updated_at
                       /\ \A i \in 1..Len(store) :
                            i # k => store[i] = last.before[i]
                       /\ last.appointment = <<[a EXCEPT !.updated_at = now]>>

\* the first of two records with the same id replaced, the second one kept
C23_Witness ==
    /\ last.op = "repo_update"
    /\ last.success
    /\ Len(store) = 2
    /\ store[1].id = store[2].id
    /\ store[1].title = <<"B">>
    /\ store[1].status = "No Show"
    /\ store[2] = last.before[2]
    /\ store[2].status # "No Show"

Key(r) == <<r.id, from_dict(r).created_at>>

InFile(k) == \E i \in 1..Len(store) : Key(store[i]) = k

CreatePersists(c) ==
    LET fr  == callers.frame[c]
        fr2 == callers'.frame[c]
    IN  /\ (fr.op = "create_appointment" /\ fr.pc = "checked"
                /\ fr2 # fr /\ callers.file = "json")
            => /\ fr2.pc = "read"
               /\ fr2.appt # <<>>
               /\ fr2.appt[1].date = fr.fields.appt_date
               /\ fr2.appt[1].start_time = fr.fields.start_time
               /\ fr2.appt[1].end_time = fr.fields.end_time
               /\ fr2.towrite = Append(store, to_dict(fr2.appt[1]))
        /\ (fr.op = "create_appointment" /\ fr.pc = "open" /\ fr2.pc = "idle")
            => /\ Key(to_dict(fr.appt[1])) \in callers'.live
               /\ callers'.file = "json"
                    => \E i \in 1..Len(store') :
                          store'[i] = to_dict(fr.appt[1])

\* C25: the conflict check is made once, on the records read before the
\* write is prepared: a create_appointment that has passed it builds and
\* stores its appointment whatever the file holds by then and returns
\* success, so two callers that both pass the check before either writes
\* both succeed.
C25_CheckedOnce == [][\A c \in {1, 2} : CreatePersists(c)]_vars

\* both callers idle, the file holding two overlapping non-Cancelled
\* appointments of the same date, each stored by a create that returned
\* success
C25_Witness ==
    /\ callers # <<>>
    /\ callers.file = "json"
    /\ \A c \in {1, 2} : callers.frame[c].pc = "idle"
    /\ \E i, j \in 1..Len(store) :
         /\ i # j
         /\ store[i].status # "Cancelled"
         /\ store[j].status # "Cancelled"
         /\ store[i].date = store[j].date
         /\ from_dict(store[i]).start_time < from_dict(store[j]).end_time
         /\ from_dict(store[j]).start_time < from_dict(store[i]).end_time
         /\ Key(store[i]) \in callers.live
         /\ Key(store[j]) \in callers.live

\* C26 as stated: with two callers, the record of every create_appointment
\* that returned success is in the file until a delete of its id.
C26_NoLostRecord ==
    (callers # <<>> /\ callers.file = "json")
    => \A k \in callers.live : InFile(k)

WritesOwnRead(c) ==
    LET fr == callers.frame[c]
    IN  (fr.pc = "open" /\ callers'.frame[c].pc = "idle"
            /\ callers'.file = "json")
        => CASE fr.op = "create_appointment" ->
                    store' = Append(fr.local, to_dict(fr.appt[1]))
             [] fr.op = "delete_appointment" ->
                    LET Keep(r) == r.id # fr.appt_id
                    IN  store' = SelectSeq(fr.local, Keep)
             [] OTHER ->
                    /\ Len(store') = Len(fr.local)
                    /\ IdStored(fr.local, fr.appt_id)
                    /\ \A i \in 1..Len(store') :
                         store'[i] = IF i = FirstWithId(fr.local, fr.appt_id)
                                     THEN to_dict(fr.appt[1])
                                     ELSE fr.local[i]

\* C26 amended: the file changes only when a caller opens it for writing or
\* completes its write, and a completed write leaves exactly the records
\* that caller had read, with its own change made to them (the record
\* appended, the records of the id removed, the first record of the id
\* replaced); what another caller wrote after that read is not in the file
\* any more.
C26_WholeFileWrites ==
    [][/\ \A c \in {1, 2} : WritesOwnRead(c)
       /\ store' # store
            => \E c \in {1, 2} :
                  /\ callers.frame[c].pc \in {"read", "open"}
                  /\ callers'.frame[c].pc # callers.frame[c].pc]_vars

\* both callers idle and the file readable, and a record whose create
\* returned success and whose id was never deleted is not in it
C26_Witness ==
    /\ callers # <<>>
    /\ callers.file = "json"
    /\ \A c \in {1, 2} : callers.frame[c].pc = "idle"
    /\ \E k \in callers.live : ~InFile(k)

PageOk ==
    /\ session.active_page \in {"dashboard", "list", "new", "edit"}
    /\ session.active_page = "edit" => session.edit_appt_id # <<>>

\* C29: in every session state active_page is dashboard, list, new or edit,
\* and on the edit page edit_appt_id is set; a step that enters the edit
\* page sets edit_appt_id, to a stored id, in that step, and a step that
\* leaves the edit page (sidebar, successful submit, cancel) leaves
\* edit_appt_id None.
C29_Router ==
    /\ []PageOk
    /\ [][/\ (session'.active_page = "edit" /\ session.active_page # "edit")
              => /\ session'.edit_appt_id # <<>>
                 /\ IdStored(store', session'.edit_appt_id[1])
          /\ (session.active_page = "edit" /\ session'.active_page # "edit")
              => session'.edit_appt_id = <<>>
          /\ session'.active_page # "edit" => session'.edit_appt_id = <<>>]_vars

\* the edit page of an appointment booked through the form in this session
C29_Witness ==
    /\ session.active_page = "edit"
    /\ session.edit_appt_id # <<>>
    /\ session.edit_appt_id[1] \in {"ID1", "ID2"}
    /\ IdStored(store, session.edit_appt_id[1])

====
